---- MODULE Spec2Model ----
(***************************************************************************)
(* A model of the RLM harness of jeffmylife/rlm:                           *)
(*   - RLMHarness.completion (src/src/harness.ts): the main iteration task *)
(*     and the bridge subcall handlers onSingleQuery / onBatchedQuery;     *)
(*   - PythonReplWorker (src/src/pythonWorker.ts): the pending queue, the  *)
(*     stdout line handler, the exit handler and request/close;            *)
(*   - LLMBridgeServer start/stop (src/src/llmBridgeServer.ts);            *)
(*   - the run executor's appendEvent (convex/runExecutor.ts), which is    *)
(*     the event sink that numbers the events of a run.                    *)
(* Every action is one turn of the event loop: an I/O completion (a sink   *)
(* call, an LM call, a listen, a response line, an HTTP request) together  *)
(* with the synchronous code that it resumes, up to the next await.        *)
(***************************************************************************)
EXTENDS Integers, Sequences, FiniteSets, TLC

(***************************************************************************)
(* Bounds of the model.                                                    *)
(***************************************************************************)
MaxSubcallLimit == 1
MaxIterationLimit == 1
MaxBlocks == 1
MaxRunRequests == 1
MaxHandlers == 2
MaxBatch == 2
MaxFaults == 1
MaxWorkerRequests == 3
MaxLines == 3
MaxTextLen == 3
MaxNotebookChars == 300
MaxRuns == 3
MaxResponseLines == 5
MaxEvents == 8
MaxLimit == 4

(***************************************************************************)
(* JavaScript values.                                                      *)
(***************************************************************************)
Null == 0
Undefined == "<undefined>"

\* JavaScript truthiness of an optional string (runFailedMessage ? a : b).
Truthy(m) == m # Undefined /\ m # ""

VARIABLES
  \* ---- RLMHarness configuration (constructor, completion input)
  maxTotalSubcalls, iterationLimit, traceCollector,
  \* ---- completion(): locals of the main task; rootCalls counts the calls
  \* of callModelWithMessages made in the loop and for the fallback
  pc, cont, i, response, blockIdx, curRepl, mreq, rootCalls,
  subcallCount, subcallSequence, replSequence,
  activeIterationIndex, activeReplExecutionId,
  runFailedMessage, bodyResult, outcome, iterations,
  \* ---- trace
  trace, onTraceCalls,
  \* ---- LLMBridgeServer and its in-flight handlers
  bridge, handlers,
  \* ---- PythonReplWorker
  closed, child, readerOpen, pending, reqs, stdinBrokenFrom, wFailed,
  \* ---- event sink (runExecutor appendEvent) and the events emitted so far
  evCount, lastEvent, emitted, nextSeq, rows, mainEv,
  \* ---- number of environment faults so far
  faults,
  \* ---- runExecutor: the timer of withTimeout has fired
  timedOut,
  \* ---- a call of a function of parsing.ts or redaction.ts, or a request
  \* to the bridge: its arguments, and the results of applying it (once, and
  \* again to its own result)
  libCall, libRet,
  \* ---- Convex table runs: the status of each run, whether it is older
  \* than the stuck threshold, and where its executor action stands
  runs

outerVars == <<libCall, libRet, runs>>
executorVars == <<timedOut>>
configVars == <<maxTotalSubcalls, iterationLimit, traceCollector>>
mainVars == <<pc, cont, i, response, blockIdx, curRepl, mreq, rootCalls, runFailedMessage,
              bodyResult, outcome, iterations>>
counterVars == <<subcallCount, subcallSequence, replSequence>>
bindingVars == <<activeIterationIndex, activeReplExecutionId>>
traceVars == <<trace, onTraceCalls>>
bridgeVars == <<bridge, handlers>>
workerVars == <<closed, child, readerOpen, pending, reqs, stdinBrokenFrom, wFailed>>
events == <<evCount, lastEvent, emitted>>
sinkVars == <<events, nextSeq, rows, mainEv>>
harnessVars == <<outerVars, executorVars, configVars, mainVars, counterVars, bindingVars,
                 traceVars, bridgeVars>>

vars == <<harnessVars, workerVars, sinkVars, faults>>

\* Everything that belongs to a harness run.
runVars == <<executorVars, configVars, mainVars, counterVars, bindingVars, traceVars,
             bridgeVars, workerVars, sinkVars, faults>>

(***************************************************************************)
(* PythonReplWorker                                                        *)
(***************************************************************************)
Last(s) == s[Len(s)]
Front(s) == SubSeq(s, 1, Len(s) - 1)

\* Promise settlement: a settled promise ignores later resolve/reject calls.
Settle(rs, id, st, msg) ==
  IF rs[id].st = "pending" THEN [rs EXCEPT ![id].st = st, ![id].msg = msg] ELSE rs

\* What a response line does to the request it is handed to
\* (JSON.parse in the line handler, then the .then of request()).
LineKinds == {"ok", "notok", "notok_empty", "invalid"}
LineSettle(rs, id, line) ==
  CASE line = "ok" -> Settle(rs, id, "resolved", "")
    [] line = "notok" -> Settle(rs, id, "rejected", "worker error")
    [] line = "notok_empty" -> Settle(rs, id, "rejected", "")
    [] OTHER -> Settle(rs, id, "rejected", "Failed to parse worker response")

\* The entry the line handler takes from the queue: pending.shift().
ShiftEntryMutantPop(q) == Last(q)
ShiftEntry(q) == Head(q)

ShiftRestMutantClear(q) == <<>>
ShiftRest(q) == Tail(q)

\* request(): the synchronous part.  A request records how many entries
\* were in the queue ahead of it when it was pushed.
WorkerRequest(cmd) ==
  IF closed
    THEN /\ reqs' = Append(reqs, [cmd |-> cmd, st |-> "rejected",
                                  msg |-> "Python worker is not available",
                                  ahead |-> 0])
         /\ UNCHANGED pending
    ELSE /\ reqs' = Append(reqs, [cmd |-> cmd, st |-> "pending", msg |-> "",
                                  ahead |-> Len(pending)])
         /\ pending' = Append(pending, Len(reqs) + 1)

\* stdoutReader.on("line"): blank lines and lines that find the queue empty
\* return without touching the state, so they are stuttering steps.
OnLine(line) ==
  /\ readerOpen
  /\ pending # <<>>
  /\ reqs' = LineSettle(reqs, ShiftEntry(pending), line)
  /\ pending' = ShiftRest(pending)
  /\ UNCHANGED <<closed, child, readerOpen, stdinBrokenFrom, wFailed>>

\* child.on("exit").
RejectAllMutantOnlyHead(rs, q, msg) ==
  IF q = <<>> THEN rs ELSE Settle(rs, Head(q), "rejected", msg)
RECURSIVE RejectAll(_, _, _)
RejectAll(rs, q, msg) ==
  IF q = <<>> THEN rs ELSE RejectAll(Settle(rs, Head(q), "rejected", msg), Tail(q), msg)

OnExit ==
  /\ child \in {"running", "killed"}
  /\ child' = "exited"
  /\ closed' = TRUE
  /\ reqs' = RejectAll(reqs, pending, "Python worker exited unexpectedly")
  /\ pending' = <<>>
  /\ UNCHANGED <<readerOpen, stdinBrokenFrom, wFailed>>

\* The child's stdin breaks while the writes of the requests from n on are
\* still under way: they fail, and so does every later write.
StdinBreak(n) ==
  /\ stdinBrokenFrom = Null
  /\ n \in 1..Len(reqs)
  /\ \A id \in n..Len(reqs) : reqs[id].st = "pending"
  /\ stdinBrokenFrom' = n
  /\ UNCHANGED <<closed, child, readerOpen, pending, reqs, wFailed>>

\* The write callback of request(): on error, pending.pop() and reject.
\* Callbacks run in the order of the writes.
NextFailedWrite == IF wFailed + 1 > stdinBrokenFrom THEN wFailed + 1 ELSE stdinBrokenFrom
OnWriteError ==
  /\ stdinBrokenFrom # Null
  /\ NextFailedWrite <= Len(reqs)
  /\ reqs[NextFailedWrite].msg # "Python worker is not available"
  /\ pending' = IF pending = <<>> THEN pending ELSE Front(pending)
  /\ reqs' = Settle(reqs, NextFailedWrite, "rejected", "write failed")
  /\ wFailed' = NextFailedWrite
  /\ UNCHANGED <<closed, child, readerOpen, stdinBrokenFrom>>

(***************************************************************************)
(* Event sink: runExecutor's appendEvent.  The seq argument is read from   *)
(* nextSeq when the sink is called; nextSeq is incremented only after the  *)
(* awaited mutation has returned.                                          *)
(***************************************************************************)
\* The events emitted so far are kept as: their number, the last one, and
\* how often each (kind, subject) was emitted.
EventKey(kind, sid, it, repl) ==
  <<kind, IF sid # Null THEN sid ELSE IF repl # Null THEN repl ELSE it>>
Count(b, k) == IF k \in DOMAIN b THEN b[k] ELSE 0
AddTo(b, k) == [x \in DOMAIN b \cup {k} |-> IF x = k THEN Count(b, k) + 1 ELSE b[x]]
Emitted(kind, id) == Count(emitted, <<kind, id>>)

\* An outstanding sink call is known by the seq it was given; rows is the
\* run_events table: how many rows were stored with each seq.
NoCall == 0
ThisCall(s) == s

\* emitRuntimeEvent up to its await: the sink is called with the event, and
\* appendEvent reads nextSeq (s) for it.
Emit(kind, sid, it, repl, s) ==
  /\ evCount' = evCount + 1
  /\ lastEvent' = [kind |-> kind, sid |-> sid, it |-> it, repl |-> repl, seq |-> s]
  /\ emitted' = AddTo(emitted, EventKey(kind, sid, it, repl))

\* appendEvent after its await: nextSeq += 1.  A failed mutation stores
\* nothing and leaves nextSeq alone; emitRuntimeEvent swallows the rejection.
SeqAfter(ok) == IF ok THEN nextSeq + 1 ELSE nextSeq

SinkSettle(call, ok) ==
  /\ nextSeq' = SeqAfter(ok)
  /\ IF ok
       THEN /\ rows' = AddTo(rows, call)
            /\ UNCHANGED faults
       ELSE /\ faults < MaxFaults
            /\ faults' = faults + 1
            /\ UNCHANGED rows

NoSink == UNCHANGED <<nextSeq, rows, faults>>

(***************************************************************************)
(* RLMHarness.completion: the main task                                    *)
(***************************************************************************)
Directives == {"none", "final", "final_var"}
Responses == [blocks : 0..MaxBlocks, directive : Directives]
NoResponse == [blocks |-> 0, directive |-> "none"]

Answer(kind, v) == [kind |-> kind, v |-> v]
NoResult == Answer("none", "")

\* The main task is suspended in emitRuntimeEvent; `next` is the code that
\* follows the emission.
MainAwaitSink(next, s) ==
  /\ pc' = "sink"
  /\ cont' = next
  /\ mainEv' = ThisCall(s)

\* The main task goes on without emitting.
MainGoto(next) ==
  /\ pc' = next
  /\ cont' = ""
  /\ mainEv' = NoCall
  /\ UNCHANGED events

\* The sink call of the main task settles and the code at `label` resumes.
MainAfterSink(label, ok) ==
  /\ pc = "sink"
  /\ cont = label
  /\ SinkSettle(mainEv, ok)

\* catch (error) { runFailedMessage = message; emit run.failed; throw }
Catch(msg, s) ==
  /\ runFailedMessage' = msg
  /\ Emit("run.failed", Null, Null, Null, s)
  /\ MainAwaitSink("rethrow", s)

\* completion() up to the first await: the worker is spawned, run.started
\* is handed to the sink.
StartCompletion ==
  /\ pc = "idle"
  /\ child' = "running"
  /\ readerOpen' = TRUE
  /\ Emit("run.started", Null, Null, Null, nextSeq)
  /\ MainAwaitSink("after_started", nextSeq)
  /\ NoSink
  /\ UNCHANGED <<i, response, blockIdx, curRepl, rootCalls, mreq, runFailedMessage, bodyResult,
                 outcome, iterations>>
  /\ UNCHANGED <<closed, pending, reqs, stdinBrokenFrom, wFailed>>
  /\ UNCHANGED <<outerVars, executorVars, configVars, counterVars, bindingVars, traceVars, bridgeVars>>

\* After run.started: createRunTrace, new LLMBridgeServer,
\* try { await bridge.start()
AfterStarted(ok) ==
  /\ MainAfterSink("after_started", ok)
  /\ bridge' = "starting"
  /\ MainGoto("await_bridge")
  /\ UNCHANGED <<i, response, blockIdx, curRepl, rootCalls, mreq, runFailedMessage, bodyResult,
                 outcome, iterations, handlers>>
  /\ UNCHANGED <<outerVars, executorVars, configVars, counterVars, bindingVars, traceVars, workerVars>>

\* bridge.start() settles; on success worker.init(...) is requested.
BridgeStartSettle(ok) ==
  /\ pc = "await_bridge"
  /\ IF ok
       THEN /\ bridge' = "listening"
            /\ WorkerRequest("init")
            /\ mreq' = Len(reqs) + 1
            /\ MainGoto("await_init")
            /\ UNCHANGED runFailedMessage
       ELSE /\ bridge' = "failed_start"
            /\ Catch("listen failed", nextSeq)
            /\ UNCHANGED <<mreq, pending, reqs>>
  /\ NoSink
  /\ UNCHANGED <<i, response, blockIdx, curRepl, rootCalls, bodyResult, outcome, iterations, handlers>>
  /\ UNCHANGED <<closed, child, readerOpen, stdinBrokenFrom, wFailed>>
  /\ UNCHANGED <<outerVars, executorVars, configVars, counterVars, bindingVars, traceVars>>

\* i < iterationLimit
LoopContinuesMutantInclusive(ii, limit) == ii <= limit
LoopContinues(ii, limit) == ii < limit

\* for (let i = 0; i < iterationLimit; ...) { emit root.iteration.started;
\* call the root model }  or, after the loop, the fallback root call.
LoopHead(ii, s) ==
  IF LoopContinues(ii, iterationLimit)
    THEN /\ Emit("root.iteration.started", Null, ii + 1, Null, s)
         /\ MainAwaitSink("call_root", s)
         /\ UNCHANGED rootCalls
    ELSE /\ rootCalls' = [rootCalls EXCEPT !.fallback = @ + 1]
         /\ MainGoto("await_fallback")

\* worker.init() settles: run.initialized, or the catch block.
InitSettle ==
  /\ pc = "await_init"
  /\ reqs[mreq].st # "pending"
  /\ IF reqs[mreq].st = "resolved"
       THEN /\ Emit("run.initialized", Null, Null, Null, nextSeq)
            /\ MainAwaitSink("loop_head", nextSeq)
            /\ UNCHANGED runFailedMessage
       ELSE Catch(reqs[mreq].msg, nextSeq)
  /\ NoSink
  /\ UNCHANGED <<i, response, blockIdx, curRepl, rootCalls, mreq, bodyResult, outcome, iterations>>
  /\ UNCHANGED <<outerVars, executorVars, configVars, counterVars, bindingVars, traceVars, bridgeVars, workerVars>>

\* After run.initialized: the first pass through the loop head.
FirstLoopHead(ok) ==
  /\ MainAfterSink("loop_head", ok)
  /\ LoopHead(i, SeqAfter(ok))
  /\ UNCHANGED <<i, response, blockIdx, curRepl, mreq, runFailedMessage, bodyResult,
                 outcome, iterations>>
  /\ UNCHANGED <<outerVars, executorVars, configVars, counterVars, bindingVars, traceVars, bridgeVars, workerVars>>

\* After root.iteration.started: callModelWithMessages is awaited.
CallRoot(ok) ==
  /\ MainAfterSink("call_root", ok)
  /\ rootCalls' = [rootCalls EXCEPT !.iter = @ + 1]
  /\ MainGoto("await_root")
  /\ UNCHANGED <<i, response, blockIdx, curRepl, mreq, runFailedMessage, bodyResult,
                 outcome, iterations>>
  /\ UNCHANGED <<outerVars, executorVars, configVars, counterVars, bindingVars, traceVars, bridgeVars, workerVars>>

\* callModelWithMessages of iteration i + 1 throws.
RootFail ==
  /\ pc = "await_root"
  /\ Catch("root call failed", nextSeq)
  /\ NoSink
  /\ UNCHANGED <<i, response, blockIdx, curRepl, rootCalls, mreq, bodyResult, outcome, iterations>>
  /\ UNCHANGED <<outerVars, executorVars, configVars, counterVars, bindingVars, traceVars, bridgeVars, workerVars>>

\* callModelWithMessages returns: parse the blocks, emit
\* root.iteration.completed.
RootReturn(resp) ==
  /\ pc = "await_root"
  /\ response' = resp
  /\ blockIdx' = 0
  /\ Emit("root.iteration.completed", Null, i + 1, Null, nextSeq)
  /\ MainAwaitSink("blocks", nextSeq)
  /\ NoSink
  /\ UNCHANGED <<i, curRepl, rootCalls, mreq, runFailedMessage, bodyResult, outcome, iterations>>
  /\ UNCHANGED <<outerVars, executorVars, configVars, counterVars, bindingVars, traceVars, bridgeVars, workerVars>>

\* trace.rootIterations.push(iterationTrace)
PushIterationTrace(t, index) ==
  IF traceCollector
    THEN [t EXCEPT !.rootIterations = Append(@, [index |-> index, subcallIds |-> <<>>])]
    ELSE t

\* The body of the for-loop over the code blocks from block b on, and what
\* follows the loop, up to the next await.
BlocksFrom(b, s) ==
  IF b < response.blocks
    THEN \* replExecutionId = `repl-${++replSequence}`; emit repl.execution.started
         /\ replSequence' = replSequence + 1
         /\ curRepl' = replSequence + 1
         /\ Emit("repl.execution.started", Null, i + 1, replSequence + 1, s)
         /\ MainAwaitSink("exec_start", s)
         /\ UNCHANGED <<i, mreq, rootCalls, iterations, trace, pending, reqs>>
    ELSE \* iterations.push(iteration); trace push; extractFinalDirective
         /\ iterations' = Append(iterations, [index |-> i + 1, blocks |-> b])
         /\ trace' = PushIterationTrace(trace, i + 1)
         /\ UNCHANGED <<replSequence, curRepl>>
         /\ CASE response.directive = "final" ->
                   /\ Emit("run.finalized", Null, Null, Null, s)
                   /\ MainAwaitSink("finalized", s)
                   /\ UNCHANGED <<i, mreq, rootCalls, pending, reqs>>
              [] response.directive = "final_var" ->
                   /\ WorkerRequest("final_var")
                   /\ mreq' = Len(reqs) + 1
                   /\ MainGoto("await_finalvar")
                   /\ UNCHANGED <<i, rootCalls>>
              [] OTHER ->
                   /\ i' = i + 1
                   /\ LoopHead(i + 1, s)
                   /\ UNCHANGED <<mreq, pending, reqs>>

\* After root.iteration.completed.
Blocks(ok) ==
  /\ MainAfterSink("blocks", ok)
  /\ BlocksFrom(blockIdx, SeqAfter(ok))
  /\ UNCHANGED <<response, blockIdx, runFailedMessage, bodyResult, outcome>>
  /\ UNCHANGED <<subcallCount, subcallSequence, bindingVars, onTraceCalls, bridgeVars>>
  /\ UNCHANGED <<closed, child, readerOpen, stdinBrokenFrom, wFailed>>
  /\ UNCHANGED <<outerVars, executorVars, configVars>>

\* After repl.execution.started: bind the exec, request worker.exec(code).
ExecStart(ok) ==
  /\ MainAfterSink("exec_start", ok)
  /\ activeIterationIndex' = i + 1
  /\ activeReplExecutionId' = curRepl
  /\ WorkerRequest("exec")
  /\ mreq' = Len(reqs) + 1
  /\ MainGoto("await_exec")
  /\ UNCHANGED <<i, response, blockIdx, curRepl, rootCalls, runFailedMessage, bodyResult,
                 outcome, iterations>>
  /\ UNCHANGED <<closed, child, readerOpen, stdinBrokenFrom, wFailed>>
  /\ UNCHANGED <<outerVars, executorVars, configVars, counterVars, traceVars, bridgeVars>>

\* try { result = await worker.exec(code) } finally { binding = null }:
\* the binding after an exec that settled with st.
BindingAfterExecMutantNoFinally(st, b) == IF st = "resolved" THEN Null ELSE b
BindingAfterExec(st, b) == Null

\* worker.exec() settles: finally { clear the binding }, then either
\* repl.execution.completed or the catch block.
ExecSettleMutantNoAwait ==
  /\ pc = "await_exec"
  /\ activeIterationIndex' = BindingAfterExec(reqs[mreq].st, activeIterationIndex)
  /\ activeReplExecutionId' = BindingAfterExec(reqs[mreq].st, activeReplExecutionId)
  /\ IF reqs[mreq].st = "resolved"
       THEN /\ Emit("repl.execution.completed", Null, i + 1, curRepl, nextSeq)
            /\ MainAwaitSink("block_done", nextSeq)
            /\ UNCHANGED runFailedMessage
       ELSE Catch(reqs[mreq].msg, nextSeq)
  /\ NoSink
  /\ UNCHANGED <<i, response, blockIdx, curRepl, rootCalls, mreq, bodyResult, outcome, iterations>>
  /\ UNCHANGED <<outerVars, executorVars, configVars, counterVars, traceVars, bridgeVars, workerVars>>
ExecSettle ==
  /\ pc = "await_exec"
  /\ reqs[mreq].st # "pending"
  /\ activeIterationIndex' = BindingAfterExec(reqs[mreq].st, activeIterationIndex)
  /\ activeReplExecutionId' = BindingAfterExec(reqs[mreq].st, activeReplExecutionId)
  /\ IF reqs[mreq].st = "resolved"
       THEN /\ Emit("repl.execution.completed", Null, i + 1, curRepl, nextSeq)
            /\ MainAwaitSink("block_done", nextSeq)
            /\ UNCHANGED runFailedMessage
       ELSE Catch(reqs[mreq].msg, nextSeq)
  /\ NoSink
  /\ UNCHANGED <<i, response, blockIdx, curRepl, rootCalls, mreq, bodyResult, outcome, iterations>>
  /\ UNCHANGED <<outerVars, executorVars, configVars, counterVars, traceVars, bridgeVars, workerVars>>

\* After repl.execution.completed: record the block, go on with the next.
BlockDone(ok) ==
  /\ MainAfterSink("block_done", ok)
  /\ blockIdx' = blockIdx + 1
  /\ BlocksFrom(blockIdx + 1, SeqAfter(ok))
  /\ UNCHANGED <<response, runFailedMessage, bodyResult, outcome>>
  /\ UNCHANGED <<subcallCount, subcallSequence, bindingVars, onTraceCalls, bridgeVars>>
  /\ UNCHANGED <<closed, child, readerOpen, stdinBrokenFrom, wFailed>>
  /\ UNCHANGED <<outerVars, executorVars, configVars>>

\* worker.finalVar() settles (in the loop or on the fallback path).
FinalVarSettle ==
  /\ pc \in {"await_finalvar", "await_fb_finalvar"}
  /\ reqs[mreq].st # "pending"
  /\ IF reqs[mreq].st = "resolved"
       THEN /\ Emit("run.finalized", Null, Null, Null, nextSeq)
            /\ MainAwaitSink(IF pc = "await_finalvar" THEN "finalized" ELSE "fb_finalized",
                             nextSeq)
            /\ UNCHANGED runFailedMessage
       ELSE Catch(reqs[mreq].msg, nextSeq)
  /\ NoSink
  /\ UNCHANGED <<i, response, blockIdx, curRepl, rootCalls, mreq, bodyResult, outcome, iterations>>
  /\ UNCHANGED <<outerVars, executorVars, configVars, counterVars, bindingVars, traceVars, bridgeVars, workerVars>>

\* The fallback root call throws.
FallbackFail ==
  /\ pc = "await_fallback"
  /\ Catch("root call failed", nextSeq)
  /\ NoSink
  /\ UNCHANGED <<i, response, blockIdx, curRepl, rootCalls, mreq, bodyResult, outcome, iterations>>
  /\ UNCHANGED <<outerVars, executorVars, configVars, counterVars, bindingVars, traceVars, bridgeVars, workerVars>>

\* The fallback root call returns; its directive is parsed.
FallbackReturn(d) ==
  /\ pc = "await_fallback"
  /\ response' = [blocks |-> 0, directive |-> d]
  /\ IF d = "final_var"
       THEN /\ WorkerRequest("final_var")
            /\ mreq' = Len(reqs) + 1
            /\ MainGoto("await_fb_finalvar")
       ELSE /\ Emit("run.finalized", Null, Null, Null, nextSeq)
            /\ MainAwaitSink("fb_finalized", nextSeq)
            /\ UNCHANGED <<mreq, pending, reqs>>
  /\ NoSink
  /\ UNCHANGED <<i, blockIdx, curRepl, rootCalls, runFailedMessage, bodyResult, outcome, iterations>>
  /\ UNCHANGED <<closed, child, readerOpen, stdinBrokenFrom, wFailed>>
  /\ UNCHANGED <<outerVars, executorVars, configVars, counterVars, bindingVars, traceVars, bridgeVars>>

\* The answer of a finalized run.
FinalAnswer(d) ==
  CASE d = "final" -> Answer("answer", "directive text")
    [] d = "final_var" -> Answer("answer", "variable value")
    [] OTHER -> Answer("answer", "raw fallback response")

\* trace.finalization = { directiveKind, answer, fallbackUsed, fallbackResponse }
FinalizationMutantNotFallback(d, fallback) ==
  [directiveKind |-> IF d = "none" THEN "fallback_text" ELSE d,
   answer |-> FinalAnswer(d).v,
   fallbackUsed |-> FALSE,
   fallbackResponse |-> "null"]
Finalization(d, fallback) ==
  [directiveKind |-> IF d = "none" THEN "fallback_text" ELSE d,
   answer |-> FinalAnswer(d).v,
   fallbackUsed |-> fallback,
   fallbackResponse |-> IF fallback THEN "raw fallback response" ELSE "null"]

\* server.close(): the server stops accepting connections at once.
BeginBridgeStop(b) == IF b = "listening" THEN "closing" ELSE b

\* After run.finalized: trace.finalization, return { answer, ... }, and the
\* finally block starts with bridge.stop().
Finalized(ok) ==
  /\ \/ MainAfterSink("finalized", ok)
     \/ MainAfterSink("fb_finalized", ok)
  /\ trace' = IF traceCollector
                THEN [trace EXCEPT !.finalization =
                        Finalization(response.directive, cont = "fb_finalized")]
                ELSE trace
  /\ bodyResult' = FinalAnswer(response.directive)
  /\ bridge' = BeginBridgeStop(bridge)
  /\ MainGoto("await_bridge_stop")
  /\ UNCHANGED <<i, response, blockIdx, curRepl, rootCalls, mreq, runFailedMessage, outcome,
                 iterations, onTraceCalls, handlers>>
  /\ UNCHANGED <<outerVars, executorVars, configVars, counterVars, bindingVars, workerVars>>

\* After run.failed: throw error, and the finally block starts.
Rethrow(ok) ==
  /\ MainAfterSink("rethrow", ok)
  /\ bodyResult' = Answer("error", runFailedMessage)
  /\ bridge' = BeginBridgeStop(bridge)
  /\ MainGoto("await_bridge_stop")
  /\ UNCHANGED <<i, response, blockIdx, curRepl, rootCalls, mreq, runFailedMessage, outcome,
                 iterations, handlers>>
  /\ UNCHANGED <<outerVars, executorVars, configVars, counterVars, bindingVars, traceVars, workerVars>>

\* The rest of the finally block after worker.close(): the trace is
\* completed and handed to onTrace (which may throw), then run.ended_* is
\* emitted.
TraceStatus(m) == IF Truthy(m) THEN "failed" ELSE "completed"
EndedKind(m) == IF Truthy(m) THEN "run.ended_failed" ELSE "run.ended_completed"

FinallyTail(throws) ==
  /\ throws => traceCollector
  /\ IF traceCollector
       THEN /\ trace' = [trace EXCEPT !.status = TraceStatus(runFailedMessage),
                                      !.error = runFailedMessage]
            /\ onTraceCalls' = onTraceCalls + 1
       ELSE UNCHANGED <<trace, onTraceCalls>>
  /\ IF throws
       THEN /\ outcome' = Answer("error", "onTrace threw")
            /\ MainGoto("settled")
       ELSE /\ Emit(EndedKind(runFailedMessage), Null, Null, Null, nextSeq)
            /\ MainAwaitSink("settle", nextSeq)
            /\ UNCHANGED outcome

\* server.close(cb) calls back once no connection is open; then
\* worker.close(): a closed worker returns at once, otherwise the close
\* request is sent.
NoOpenConnectionMutantAlways == TRUE
NoOpenConnection == \A h \in DOMAIN handlers : ~handlers[h].conn

BridgeStopSettle(throws) ==
  /\ pc = "await_bridge_stop"
  /\ NoOpenConnection
  /\ bridge' = "stopped"
  /\ IF closed
       THEN /\ FinallyTail(throws)
            /\ UNCHANGED <<mreq, pending, reqs>>
       ELSE /\ ~throws
            /\ WorkerRequest("close")
            /\ mreq' = Len(reqs) + 1
            /\ MainGoto("await_close")
            /\ UNCHANGED <<trace, onTraceCalls, outcome>>
  /\ NoSink
  /\ UNCHANGED <<i, response, blockIdx, curRepl, rootCalls, runFailedMessage, bodyResult,
                 iterations, handlers>>
  /\ UNCHANGED <<closed, child, readerOpen, stdinBrokenFrom, wFailed>>
  /\ UNCHANGED <<outerVars, executorVars, configVars, counterVars, bindingVars>>

\* child.kill() in close().
KillChildMutantNoKill(c) == c
KillChild(c) == IF c = "running" THEN "killed" ELSE c

\* The close request settles (its error is ignored):
\* stdoutReader.close(); child.kill(); closed = true; then the rest of the
\* finally block.
CloseSettle(throws) ==
  /\ pc = "await_close"
  /\ reqs[mreq].st # "pending"
  /\ readerOpen' = FALSE
  /\ child' = KillChild(child)
  /\ closed' = TRUE
  /\ FinallyTail(throws)
  /\ NoSink
  /\ UNCHANGED <<i, response, blockIdx, curRepl, rootCalls, mreq, runFailedMessage, bodyResult,
                 iterations>>
  /\ UNCHANGED <<pending, reqs, stdinBrokenFrom, wFailed>>
  /\ UNCHANGED <<outerVars, executorVars, configVars, counterVars, bindingVars, bridgeVars>>

\* After run.ended_*: completion settles with the result of the try block.
Settled(ok) ==
  /\ MainAfterSink("settle", ok)
  /\ outcome' = bodyResult
  /\ MainGoto("settled")
  /\ UNCHANGED <<i, response, blockIdx, curRepl, rootCalls, mreq, runFailedMessage, bodyResult,
                 iterations>>
  /\ UNCHANGED <<outerVars, executorVars, configVars, counterVars, bindingVars, traceVars, bridgeVars, workerVars>>

(***************************************************************************)
(* Bridge handlers: onSingleQuery and onBatchedQuery                       *)
(***************************************************************************)
IdleHandler ==
  [pc |-> "idle", cont |-> "", kind |-> "", n |-> 0, index |-> 0, sid |-> Null,
   it |-> Null, repl |-> Null, res |-> [s |-> "", n |-> 0], err |-> FALSE,
   responses |-> <<>>, conn |-> FALSE, ev |-> NoCall, http |-> 0]

\* `Error: sub-call limit reached (${this.maxTotalSubcalls})`
RejectedResponseMutantCount(limit) == [s |-> "Error: sub-call limit reached", n |-> limit + 1]
RejectedResponse(limit) == [s |-> "Error: sub-call limit reached", n |-> limit]
\* `Error: LM query failed - ${message}`
FailedResponseMutantBare == [s |-> "LM query failed - lm error", n |-> 0]
FailedResponse == [s |-> "Error: LM query failed - lm error", n |-> 0]
\* response.text of the LM call made for prompt p
TextResponse(p) == [s |-> "text", n |-> p]

\* if (subcallCount >= this.maxTotalSubcalls)
BudgetExceededMutantOffByOne(count, limit) == count > limit
BudgetExceeded(count, limit) == count >= limit

\* The bridge accepts a request: it listens, and the interpreter is alive
\* and is running code (subcalls are issued by the code of an exec request
\* that has not been answered yet).
CanArrive(h) ==
  /\ bridge = "listening"
  /\ pending # <<>>
  /\ reqs[Head(pending)].cmd = "exec"
  /\ child = "running"
  /\ handlers[h].pc = "idle"
  /\ \A g \in 1..(h - 1) : handlers[g].pc # "idle"

HandlerAwaitSink(rec, next, s) ==
  [rec EXCEPT !.pc = "sink", !.cont = next, !.ev = ThisCall(s)]

\* The sink call of handler h settles and the code at `label` resumes.
HandlerAfterSink(h, label, ok) ==
  /\ handlers[h].pc = "sink"
  /\ handlers[h].cont = label
  /\ SinkSettle(handlers[h].ev, ok)

\* ++subcallSequence
NextSubcallIdMutantReuse(seq) == 1
NextSubcallId(seq) == seq + 1

\* const replExecutionId = activeReplExecutionId
SnapshotReplMutantLast == curRepl
SnapshotRepl == activeReplExecutionId

\* subcallId = `sub-${++subcallSequence}`; snapshot of the binding;
\* emit subcall.started.
StartSubcallMutantSkip(h, rec, idx, s) ==
  /\ subcallSequence' = subcallSequence + 2
  /\ Emit("subcall.started", subcallSequence + 2, activeIterationIndex, SnapshotRepl, s)
  /\ handlers' = [handlers EXCEPT ![h] =
       HandlerAwaitSink([rec EXCEPT !.index = idx,
                                    !.sid = subcallSequence + 2,
                                    !.it = activeIterationIndex,
                                    !.repl = SnapshotRepl], "check", s)]
StartSubcall(h, rec, idx, s) ==
  /\ subcallSequence' = NextSubcallId(subcallSequence)
  /\ Emit("subcall.started", NextSubcallId(subcallSequence), activeIterationIndex,
          SnapshotRepl, s)
  /\ handlers' = [handlers EXCEPT ![h] =
       HandlerAwaitSink([rec EXCEPT !.index = idx,
                                    !.sid = NextSubcallId(subcallSequence),
                                    !.it = activeIterationIndex,
                                    !.repl = SnapshotRepl], "check", s)]

\* POST /llm_query with a string prompt: onSingleQuery up to its first await.
ArriveSingle(h) ==
  /\ CanArrive(h)
  /\ StartSubcall(h, [IdleHandler EXCEPT !.kind = "single", !.n = 1, !.conn = TRUE], 0,
                  nextSeq)
  /\ NoSink
  /\ UNCHANGED <<subcallCount, replSequence, bridge, mainEv>>
  /\ UNCHANGED <<outerVars, executorVars, configVars, mainVars, bindingVars, traceVars, workerVars>>

\* POST /llm_query_batched with n prompts: onBatchedQuery up to its first
\* await (subcall.batch_started).
ArriveBatch(h, n) ==
  /\ CanArrive(h)
  /\ Emit("subcall.batch_started", Null, Null, Null, nextSeq)
  /\ handlers' = [handlers EXCEPT ![h] =
       HandlerAwaitSink([IdleHandler EXCEPT !.kind = "batched", !.n = n, !.conn = TRUE],
                        "loop", nextSeq)]
  /\ NoSink
  /\ UNCHANGED <<bridge, mainEv>>
  /\ UNCHANGED <<outerVars, executorVars, configVars, mainVars, counterVars, bindingVars, traceVars, workerVars>>

\* The head of the for-loop of onBatchedQuery at index idx, up to the next
\* await: the next item is started, or subcall.batch_completed is emitted.
BatchFromMutantSkipLast(h, rec, idx, s) ==
  IF idx + 1 < rec.n
    THEN StartSubcall(h, rec, idx, s)
    ELSE /\ Emit("subcall.batch_completed", Null, Null, Null, s)
         /\ handlers' = [handlers EXCEPT ![h] =
              HandlerAwaitSink([rec EXCEPT !.index = idx], "return", s)]
         /\ UNCHANGED subcallSequence
BatchFrom(h, rec, idx, s) ==
  IF idx < rec.n
    THEN StartSubcall(h, rec, idx, s)
    ELSE /\ Emit("subcall.batch_completed", Null, Null, Null, s)
         /\ handlers' = [handlers EXCEPT ![h] =
              HandlerAwaitSink([rec EXCEPT !.index = idx], "return", s)]
         /\ UNCHANGED subcallSequence

\* After subcall.batch_started.
BatchLoop(h, ok) ==
  /\ HandlerAfterSink(h, "loop", ok)
  /\ BatchFrom(h, handlers[h], 0, SeqAfter(ok))
  /\ UNCHANGED <<subcallCount, replSequence, bridge, mainEv>>
  /\ UNCHANGED <<outerVars, executorVars, configVars, mainVars, bindingVars, traceVars, workerVars>>

\* After subcall.started: the budget check.  A rejected subcall emits
\* subcall.rejected; an accepted one is counted and its LM call starts.
PushResponseMutantPrepend(rec, r) ==
  IF rec.kind = "batched" THEN [rec EXCEPT !.responses = <<r>> \o @] ELSE rec
PushResponse(rec, r) ==
  IF rec.kind = "batched" THEN [rec EXCEPT !.responses = Append(@, r)] ELSE rec

BudgetCheck(h, ok) ==
  /\ HandlerAfterSink(h, "check", ok)
  /\ IF BudgetExceeded(subcallCount, maxTotalSubcalls)
       THEN /\ Emit("subcall.rejected", handlers[h].sid, Null, Null, SeqAfter(ok))
            /\ handlers' = [handlers EXCEPT ![h] =
                 HandlerAwaitSink(
                   PushResponse([handlers[h] EXCEPT
                                   !.res = RejectedResponse(maxTotalSubcalls),
                                   !.err = TRUE],
                                RejectedResponse(maxTotalSubcalls)),
                   "terminal", SeqAfter(ok))]
            /\ UNCHANGED subcallCount
       ELSE /\ subcallCount' = subcallCount + 1
            /\ handlers' = [handlers EXCEPT ![h].pc = "lm", ![h].cont = "",
                                            ![h].ev = NoCall]
            /\ UNCHANGED events
  /\ UNCHANGED <<subcallSequence, replSequence, bridge, mainEv>>
  /\ UNCHANGED <<outerVars, executorVars, configVars, mainVars, bindingVars, traceVars, workerVars>>

\* callModelWithPrompt settles: subcall.completed or subcall.failed.
LMSettle(h, ok) ==
  /\ handlers[h].pc = "lm"
  /\ LET r == IF ok THEN TextResponse(handlers[h].index + 1) ELSE FailedResponse
     IN /\ Emit(IF ok THEN "subcall.completed" ELSE "subcall.failed",
                handlers[h].sid, Null, Null, nextSeq)
        /\ handlers' = [handlers EXCEPT ![h] =
             HandlerAwaitSink(
               PushResponse([handlers[h] EXCEPT !.res = r, !.err = ~ok], r),
               "terminal", nextSeq)]
  /\ NoSink
  /\ UNCHANGED <<bridge, mainEv>>
  /\ UNCHANGED <<outerVars, executorVars, configVars, mainVars, counterVars, bindingVars, traceVars, workerVars>>

\* pushSubcallTrace
RECURSIVE AddSubcallId(_, _, _)
AddSubcallId(its, index, id) ==
  IF its = <<>> THEN <<>>
  ELSE IF Head(its).index = index
         THEN <<[Head(its) EXCEPT !.subcallIds = Append(@, id)]>> \o Tail(its)
         ELSE <<Head(its)>> \o AddSubcallId(Tail(its), index, id)

PushSubcallTraceMutantTwice(t, sub) ==
  IF ~traceCollector THEN t
  ELSE [t EXCEPT !.subcalls = Append(Append(@, sub), sub)]
PushSubcallTrace(t, sub) ==
  IF ~traceCollector THEN t
  ELSE [t EXCEPT !.subcalls = Append(@, sub),
                 !.rootIterations =
                    IF sub.iterationIndex # Null
                      THEN AddSubcallId(@, sub.iterationIndex, sub.id)
                      ELSE @]

SubcallTrace(rec) ==
  [id |-> rec.sid, iterationIndex |-> rec.it, replExecutionId |-> rec.repl,
   kind |-> rec.kind, batchIndex |-> IF rec.kind = "batched" THEN rec.index ELSE Null,
   response |-> rec.res, error |-> rec.err]

\* The handler has answered: sendJson(res, 200, ...).
Answered(rec) ==
  [rec EXCEPT !.pc = "done", !.cont = "", !.ev = NoCall, !.conn = FALSE, !.http = 200]

\* After the terminal event of a subcall: its trace record is pushed; a
\* single query returns (HTTP 200), a batch goes on with the next item.
Terminal(h, ok) ==
  /\ HandlerAfterSink(h, "terminal", ok)
  /\ trace' = PushSubcallTrace(trace, SubcallTrace(handlers[h]))
  /\ IF handlers[h].kind = "single"
       THEN /\ handlers' = [handlers EXCEPT ![h] = Answered(handlers[h])]
            /\ UNCHANGED <<events, subcallSequence>>
       ELSE BatchFrom(h, handlers[h], handlers[h].index + 1, SeqAfter(ok))
  /\ UNCHANGED <<subcallCount, replSequence, bridge, onTraceCalls, mainEv>>
  /\ UNCHANGED <<outerVars, executorVars, configVars, mainVars, bindingVars, workerVars>>

\* After subcall.batch_completed: return responses (HTTP 200).
BatchReturn(h, ok) ==
  /\ HandlerAfterSink(h, "return", ok)
  /\ handlers' = [handlers EXCEPT ![h] = Answered(handlers[h])]
  /\ UNCHANGED <<bridge, events, mainEv>>
  /\ UNCHANGED <<outerVars, executorVars, configVars, mainVars, counterVars, bindingVars, traceVars, workerVars>>

\* The interpreter gives up an HTTP request: its connection closes, the
\* handler goes on.
ClientAbandon(h) ==
  /\ handlers[h].conn
  /\ faults < MaxFaults
  /\ faults' = faults + 1
  /\ handlers' = [handlers EXCEPT ![h].conn = FALSE]
  /\ UNCHANGED bridge
  /\ UNCHANGED <<outerVars, executorVars, configVars, mainVars, counterVars, bindingVars, traceVars, workerVars,
                 sinkVars>>

(***************************************************************************)
(* The worker process as seen by a run                                     *)
(***************************************************************************)
\* A response line of the child is read.  The interpreter answers a
\* request only once the HTTP calls of its code have returned or have been
\* given up.  A line that is not JSON, or an error without a message, is an
\* environment fault.
WorkerLine(line) ==
  /\ NoOpenConnection
  /\ OnLine(line)
  /\ IF line \in {"invalid", "notok_empty"}
       THEN faults < MaxFaults /\ faults' = faults + 1
       ELSE UNCHANGED faults
  /\ UNCHANGED <<harnessVars, sinkVars>>

\* The child exits: the exit handler runs, and the connections the child
\* held to the bridge are closed.
WorkerExit ==
  /\ OnExit
  /\ IF child = "running"
       THEN faults < MaxFaults /\ faults' = faults + 1
       ELSE UNCHANGED faults
  /\ handlers' = [h \in DOMAIN handlers |-> [handlers[h] EXCEPT !.conn = FALSE]]
  /\ UNCHANGED <<outerVars, executorVars, configVars, mainVars, counterVars, bindingVars, traceVars, bridge,
                 sinkVars>>

WorkerStdinBreak(n) ==
  /\ StdinBreak(n)
  /\ faults < MaxFaults
  /\ faults' = faults + 1
  /\ UNCHANGED <<harnessVars, sinkVars>>

WorkerWriteError ==
  /\ OnWriteError
  /\ UNCHANGED <<harnessVars, sinkVars, faults>>

(***************************************************************************)
(* Specification of one completion run                                     *)
(***************************************************************************)
NoTrace ==
  [status |-> "completed", error |-> Undefined, rootIterations |-> <<>>,
   subcalls |-> <<>>, finalization |-> [directiveKind |-> "", answer |-> "", fallbackUsed |-> FALSE,
                                          fallbackResponse |-> "null"]]

InitHarness ==
  /\ pc = "idle" /\ cont = "" /\ i = 0 /\ response = NoResponse /\ blockIdx = 0
  /\ curRepl = Null /\ mreq = Null /\ rootCalls = [iter |-> 0, fallback |-> 0]
  /\ subcallCount = 0 /\ subcallSequence = 0 /\ replSequence = 0
  /\ activeIterationIndex = Null /\ activeReplExecutionId = Null
  /\ runFailedMessage = Undefined /\ bodyResult = NoResult /\ outcome = NoResult
  /\ iterations = <<>>
  /\ trace = NoTrace /\ onTraceCalls = 0
  /\ bridge = "idle"
  /\ handlers = [h \in 1..MaxHandlers |-> IdleHandler]

\* runExecutor has not timed out.
InitExecutor == timedOut = FALSE

\* No library function is being called and no run was started.
InitOuter == libCall = [fn |-> "none"] /\ libRet = <<>> /\ runs = <<>>

InitSink ==
  /\ evCount = 0
  /\ lastEvent = [kind |-> "", sid |-> Null, it |-> Null, repl |-> Null, seq |-> 0]
  /\ emitted = << >>
  /\ nextSeq = 1 /\ rows = << >> /\ mainEv = NoCall

InitWorkerIdle ==
  /\ closed = FALSE /\ child = "none" /\ readerOpen = FALSE
  /\ pending = <<>> /\ reqs = <<>> /\ stdinBrokenFrom = Null /\ wFailed = 0

Init ==
  /\ maxTotalSubcalls \in 0..MaxSubcallLimit
  /\ iterationLimit \in 0..MaxIterationLimit
  /\ traceCollector \in BOOLEAN
  /\ InitHarness
  /\ InitSink
  /\ InitWorkerIdle
  /\ faults = 0
  /\ InitExecutor
  /\ InitOuter

MainStep ==
  \/ StartCompletion
  \/ \E ok \in BOOLEAN : AfterStarted(ok)
  \/ \E ok \in BOOLEAN : BridgeStartSettle(ok)
  \/ InitSettle
  \/ \E ok \in BOOLEAN : FirstLoopHead(ok)
  \/ \E ok \in BOOLEAN : CallRoot(ok)
  \/ RootFail
  \/ \E resp \in Responses : RootReturn(resp)
  \/ \E ok \in BOOLEAN : Blocks(ok)
  \/ \E ok \in BOOLEAN : ExecStart(ok)
  \/ ExecSettle
  \/ \E ok \in BOOLEAN : BlockDone(ok)
  \/ FinalVarSettle
  \/ FallbackFail
  \/ \E d \in Directives : FallbackReturn(d)
  \/ \E ok \in BOOLEAN : Finalized(ok)
  \/ \E ok \in BOOLEAN : Rethrow(ok)
  \/ \E throws \in BOOLEAN : BridgeStopSettle(throws)
  \/ \E throws \in BOOLEAN : CloseSettle(throws)
  \/ \E ok \in BOOLEAN : Settled(ok)

HandlerStep(h) ==
  \/ ArriveSingle(h)
  \/ \E n \in 1..MaxBatch : ArriveBatch(h, n)
  \/ \E ok \in BOOLEAN : BatchLoop(h, ok)
  \/ \E ok \in BOOLEAN : BudgetCheck(h, ok)
  \/ \E ok \in BOOLEAN : LMSettle(h, ok)
  \/ \E ok \in BOOLEAN : Terminal(h, ok)
  \/ \E ok \in BOOLEAN : BatchReturn(h, ok)
  \/ ClientAbandon(h)

WorkerStep ==
  \/ \E line \in LineKinds : WorkerLine(line)
  \/ WorkerExit
  \/ \E n \in 1..Len(reqs) : WorkerStdinBreak(n)
  \/ WorkerWriteError

\* One run, in which the interpreter's code issues up to MaxRunRequests
\* bridge requests.
Next ==
  \/ MainStep
  \/ \E h \in 1..MaxRunRequests : HandlerStep(h)
  \/ WorkerStep

Spec == Init /\ [][Next]_vars

(***************************************************************************)
(* Specification of the subcalls of one exec: the main task waits for      *)
(* worker.exec() of the first code block while the interpreter's code      *)
(* issues up to MaxHandlers concurrent bridge requests.                    *)
(***************************************************************************)
InitSubcalls ==
  /\ maxTotalSubcalls \in 0..MaxSubcallLimit
  /\ iterationLimit = 1
  /\ traceCollector \in BOOLEAN
  /\ pc = "await_exec" /\ cont = "" /\ i = 0
  /\ response = [blocks |-> 1, directive |-> "none"]
  /\ blockIdx = 0 /\ curRepl = 1 /\ mreq = 2 /\ rootCalls = [iter |-> 1, fallback |-> 0]
  /\ subcallCount = 0 /\ subcallSequence = 0 /\ replSequence = 1
  /\ activeIterationIndex = 1 /\ activeReplExecutionId = 1
  /\ runFailedMessage = Undefined /\ bodyResult = NoResult /\ outcome = NoResult
  /\ iterations = <<>>
  /\ trace = NoTrace /\ onTraceCalls = 0
  /\ bridge = "listening"
  /\ handlers = [h \in 1..MaxHandlers |-> IdleHandler]
  /\ closed = FALSE /\ child = "running" /\ readerOpen = TRUE
  /\ pending = <<2>>
  /\ reqs = <<[cmd |-> "init", st |-> "resolved", msg |-> "", ahead |-> 0],
              [cmd |-> "exec", st |-> "pending", msg |-> "", ahead |-> 0]>>
  /\ stdinBrokenFrom = Null /\ wFailed = 0
  /\ evCount = 5
  /\ lastEvent = [kind |-> "repl.execution.started", sid |-> Null, it |-> 1, repl |-> 1,
                  seq |-> 5]
  /\ emitted = (<<"run.started", Null>> :> 1) @@ (<<"run.initialized", Null>> :> 1)
               @@ (<<"root.iteration.started", 1>> :> 1)
               @@ (<<"root.iteration.completed", 1>> :> 1)
               @@ (<<"repl.execution.started", 1>> :> 1)
  /\ nextSeq = 6
  /\ rows = [s \in 1..5 |-> 1]
  /\ mainEv = NoCall
  /\ faults = 0
  /\ InitExecutor
  /\ InitOuter

NextSubcalls == \E h \in 1..MaxHandlers : HandlerStep(h)

SpecSubcalls == InitSubcalls /\ [][NextSubcalls]_vars

\* The steps of handler h that the harness takes by itself once the awaited
\* call has settled: every sink call returns or fails, every LM call
\* returns or fails (its deadline), and the event loop then runs the
\* continuation.
HandlerProgress(h) ==
  \/ \E ok \in BOOLEAN : BatchLoop(h, ok)
  \/ \E ok \in BOOLEAN : BudgetCheck(h, ok)
  \/ \E ok \in BOOLEAN : LMSettle(h, ok)
  \/ \E ok \in BOOLEAN : Terminal(h, ok)
  \/ \E ok \in BOOLEAN : BatchReturn(h, ok)

\* The subcalls of one exec in which the interpreter's code issues a single
\* or a batched request and, concurrently, further single queries; every
\* awaited call of a handler settles.
NextSubcallsLive ==
  \/ \E h \in 1..MaxHandlers : ArriveSingle(h)
  \/ \E n \in 1..MaxBatch : ArriveBatch(1, n)
  \/ \E h \in 1..MaxHandlers : HandlerProgress(h)
  \/ \E h \in 1..MaxHandlers : ClientAbandon(h)

SpecSubcallsLive ==
  /\ InitSubcalls
  /\ [][NextSubcallsLive]_vars
  /\ \A h \in 1..MaxHandlers : WF_vars(HandlerProgress(h))

\* One run in which the interpreter's code issues one bridge request, a
\* single query or a batch of one prompt, and in which every awaited call
\* settles: the event loop runs the main task and the handler once what
\* they await has settled (every sink call and every LM call returns or
\* fails), and the worker answers each request or exits.
NextLive ==
  \/ MainStep
  \/ ArriveSingle(1)
  \/ ArriveBatch(1, 1)
  \/ HandlerProgress(1)
  \/ ClientAbandon(1)
  \/ WorkerStep

SpecLive ==
  /\ Init
  /\ [][NextLive]_vars
  /\ WF_vars(MainStep)
  /\ WF_vars(HandlerProgress(1))
  /\ WF_vars(WorkerStep)

(***************************************************************************)
(* Specification of a PythonReplWorker with a client that submits up to    *)
(* MaxWorkerRequests requests without waiting for their responses.         *)
(***************************************************************************)
Commands == {"init", "exec", "final_var"}

ClientRequest(cmd) ==
  /\ Len(reqs) < MaxWorkerRequests
  /\ WorkerRequest(cmd)
  /\ UNCHANGED <<closed, child, readerOpen, stdinBrokenFrom, wFailed>>
  /\ UNCHANGED <<harnessVars, sinkVars, faults>>

InitWorker ==
  /\ maxTotalSubcalls = 0 /\ iterationLimit = 0 /\ traceCollector = FALSE
  /\ InitHarness
  /\ InitSink
  /\ closed = FALSE /\ child = "running" /\ readerOpen = TRUE
  /\ pending = <<>> /\ reqs = <<>> /\ stdinBrokenFrom = Null /\ wFailed = 0
  /\ faults = 0
  /\ InitExecutor
  /\ InitOuter

NextWorker ==
  \/ \E cmd \in Commands : ClientRequest(cmd)
  \/ WorkerStep

SpecWorker == InitWorker /\ [][NextWorker]_vars

(***************************************************************************)
(* Specification of a run under runExecutor: the completion is raced       *)
(* against the timer of withTimeout.  The timer rejects the promise the    *)
(* executor awaits; nothing is passed to the harness, whose tasks go on.   *)
(***************************************************************************)
ExecutorTimeout ==
  /\ pc \notin {"idle", "settled"}
  /\ ~timedOut
  /\ timedOut' = TRUE
  /\ UNCHANGED <<outerVars, configVars, mainVars, counterVars, bindingVars, traceVars, bridgeVars>>
  /\ UNCHANGED <<workerVars, sinkVars, faults>>

NextTimeout ==
  \/ Next
  \/ ExecutorTimeout

SpecTimeout == Init /\ [][NextTimeout]_vars

(***************************************************************************)
(* parsing.ts and redaction.ts: pure functions.  A text given to           *)
(* extractFinalDirective is a sequence of lines; a line is prose, or       *)
(* FINAL_VAR(arg) or FINAL(arg) at its start and nothing after the         *)
(* closing parenthesis; arg may be empty.                                  *)
(***************************************************************************)
ResponseLines ==
  {[d |-> "none", arg |-> ""]} \cup
  {[d |-> d, arg |-> a] : d \in {"final_var", "final"}, a \in {"", "x", "y"}}

\* extractFinalDirective.  /^\s*FINAL_VAR\((.*?)\)/ms finds the first
\* FINAL_VAR line and captures its argument; only a non-empty capture is
\* used.  Otherwise /^\s*FINAL\((.*)\)\s*$/ms starts at the first FINAL
\* line and its greedy capture runs to the last closing parenthesis that
\* ends a line.  A capture is given as the lines it spans: from the
\* argument of the first to the argument of the last.
ExtractFinalDirective(text) ==
  LET First(S) == CHOOSE k \in S : \A j \in S : k <= j
      finalVars == {k \in DOMAIN text : text[k].d = "final_var"}
      finals == {k \in DOMAIN text : text[k].d = "final"}
      last == CHOOSE k \in DOMAIN text :
                /\ text[k].d # "none"
                /\ \A j \in DOMAIN text : text[j].d # "none" => j <= k
  IN IF finalVars # {} /\ text[First(finalVars)].arg # ""
       THEN [kind |-> "final_var", value |-> <<text[First(finalVars)]>>]
       ELSE IF finals # {} /\ (First(finals) # last \/ text[last].arg # "")
              THEN [kind |-> "final", value |-> SubSeq(text, First(finals), last)]
              ELSE [kind |-> "null", value |-> <<>>]

\* The calls made: extractFinalDirective on every text of up to MaxLines
\* lines.
RECURSIVE SeqsUpTo(_, _)
SeqsUpTo(S, n) ==
  IF n = 0 THEN {<<>>}
  ELSE LET shorter == SeqsUpTo(S, n - 1)
       IN shorter \cup {Append(s, x) : s \in shorter, x \in S}

ExtractCalls ==
  {[fn |-> "extractFinalDirective", text |-> t] : t \in SeqsUpTo(ResponseLines, MaxLines)}

\* extractReplCodeBlocks.  The text is a sequence of lines: ```repl
\* ("fence_repl"), ``` ("fence"), a line of code or prose ("code"), or an
\* empty line ("").  The pattern
\* /```repl\s*\n([\s\S]*?)\n```/g matches at a ```repl line k: the greedy
\* \s*\n runs through t of the empty lines that follow it, the most first;
\* the lazy capture starts at line k + t + 1 and ends before the first later
\* line that starts with ```; the search goes on after those three
\* characters.  A capture is trimmed and kept if it is not empty.
ExtractReplCodeBlocks(text) ==
  LET Fenced(k) == text[k] \in {"fence_repl", "fence"}
      Trim(s) == LET ink == {x \in DOMAIN s : s[x] # ""}
                 IN IF ink = {} THEN <<>>
                    ELSE SubSeq(s, CHOOSE x \in ink : \A y \in ink : x <= y,
                                   CHOOSE x \in ink : \A y \in ink : y <= x)
      Closing(m) == CHOOSE c \in m..Len(text) : Fenced(c) /\ \A d \in m..(c - 1) : ~Fenced(d)
      Skips(k) == {t \in 0..(Len(text) - k - 1) :
                     /\ \A b \in (k + 1)..(k + t) : text[b] = ""
                     /\ \E c \in (k + t + 2)..Len(text) : Fenced(c)}
      RECURSIVE From(_)
      From(p) ==
        IF \A k \in p..Len(text) : text[k] # "fence_repl" THEN <<>>
        ELSE LET k == CHOOSE o \in p..Len(text) :
                        text[o] = "fence_repl" /\ \A d \in p..(o - 1) : text[d] # "fence_repl"
             IN IF Skips(k) = {} THEN From(k + 1)
                ELSE LET t == CHOOSE x \in Skips(k) : \A y \in Skips(k) : y <= x
                         m == Closing(k + t + 2)
                         code == Trim(SubSeq(text, k + t + 1, m - 1))
                     IN (IF code # <<>> THEN <<code>> ELSE <<>>) \o From(m + 1)
  IN From(1)

\* Other texts are sequences of characters.  `${n}` of a number:
RECURSIVE NumberText(_)
NumberText(n) ==
  LET Digits == <<"0", "1", "2", "3", "4", "5", "6", "7", "8", "9">>
  IN IF n < 10 THEN <<Digits[n + 1]>> ELSE NumberText(n \div 10) \o <<Digits[(n % 10) + 1]>>

\* text.slice(from, to) and text.slice(from), for 0 <= from.
Slice(text, from, to) ==
  SubSeq(text, from + 1, IF to < Len(text) THEN to ELSE Len(text))

\* truncateText
TruncateText(text, maxChars) ==
  IF Len(text) <= maxChars
    THEN text
    ELSE Slice(text, 0, maxChars)
           \o <<"\n", ".", ".", ".", " ", "[", "t", "r", "u", "n", "c", "a", "t", "e", "d", " ">>
           \o NumberText(Len(text) - maxChars)
           \o <<" ", "c", "h", "a", "r", "s", "]">>

TruncateCalls ==
  {[fn |-> "truncateText", text |-> t, max |-> m] :
     t \in SeqsUpTo({"a", "b"}, MaxTextLen), m \in 0..MaxTextLen}

\* sha256(text) as 64 hexadecimal digits; the digits are a function of
\* the length of the text only.
Sha256(text) ==
  LET HexDigits == <<"0", "1", "2", "3", "4", "5", "6", "7", "8", "9",
                     "a", "b", "c", "d", "e", "f">>
  IN [k \in 1..64 |-> HexDigits[((Len(text) + k) % 16) + 1]]

\* redactLongText
RedactLongText(text, threshold, policy) ==
  IF Len(text) <= threshold
    THEN [text |-> text, redacted |-> FALSE, originalLength |-> Len(text), digest |-> <<>>]
    ELSE LET head == Slice(text, 0, policy.headChars)
             tail == Slice(text,
                           IF Len(text) - policy.tailChars >= policy.headChars
                             THEN Len(text) - policy.tailChars ELSE policy.headChars,
                           Len(text))
             omitted == Len(text) - Len(head) - Len(tail)
         IN [text |-> head
                        \o <<"\n", ".", ".", ".", " ", "[", "t", "r", "u", "n", "c", "a", "t", "e", "d", " ">>
                        \o NumberText(omitted)
                        \o <<" ", "c", "h", "a", "r", "s", ";", " ", "s", "h", "a", "2", "5", "6", "=">>
                        \o Sha256(text)
                        \o <<"]", " ", ".", ".", ".", "\n">>
                        \o tail,
             redacted |-> TRUE, originalLength |-> Len(text), digest |-> Sha256(text)]

\* redactContextPreview
RedactContextPreview(text, policy) ==
  IF Len(text) <= policy.maxContextPreviewChars
    THEN [text |-> text, redacted |-> FALSE, originalLength |-> Len(text), digest |-> <<>>]
    ELSE [text |-> Slice(text, 0, policy.maxContextPreviewChars)
                     \o <<"\n", ".", ".", ".", " ", "[", "c", "o", "n", "t", "e", "x", "t", " ", "p", "r", "e", "v", "i", "e", "w", " ", "t", "r", "u", "n", "c", "a", "t", "e", "d", " ">>
                     \o NumberText(Len(text) - policy.maxContextPreviewChars)
                     \o <<" ", "c", "h", "a", "r", "s", "]">>,
          redacted |-> TRUE, originalLength |-> Len(text), digest |-> Sha256(text)]

\* redactPromptText, redactReplOutput, redactContextPreview
Redaction(fn, text, policy) ==
  CASE fn = "redactPromptText" -> RedactLongText(text, policy.maxPromptChars, policy)
    [] fn = "redactReplOutput" -> RedactLongText(text, policy.maxReplOutputChars, policy)
    [] fn = "redactContextPreview" -> RedactContextPreview(text, policy)

\* cli.ts buildNotebookPolicy(maxChars); Math.floor(bounded * 0.75)
BuildNotebookPolicy(maxChars) ==
  LET Max(a, b) == IF a >= b THEN a ELSE b
      bounded == Max(maxChars, 256)
      headChars == Max(64, (bounded * 3) \div 4)
  IN [maxPromptChars |-> bounded, maxContextPreviewChars |-> bounded,
      maxReplOutputChars |-> bounded, headChars |-> headChars,
      tailChars |-> Max(64, bounded - headChars)]

\* The policies tried: those of the CLI for --notebook-max-chars 0 and
\* MaxNotebookChars, and policies with small numbers given by a caller.
\* The texts redacted: the short ones, and one text just over each
\* threshold of the CLI policies.
RedactCalls ==
  LET Policies ==
        {BuildNotebookPolicy(c) : c \in {0, MaxNotebookChars}} \cup
        {[maxPromptChars |-> m, maxContextPreviewChars |-> m, maxReplOutputChars |-> m,
          headChars |-> h, tailChars |-> t] : m \in 0..(MaxTextLen - 1), h \in 0..1, t \in 0..1}
  IN
  {[fn |-> f, text |-> t, policy |-> p] :
     f \in {"redactPromptText", "redactReplOutput", "redactContextPreview"},
     t \in SeqsUpTo({"a", "b"}, MaxTextLen)
             \cup {[k \in 1..n |-> "a"] : n \in {257, MaxNotebookChars + 1}},
     p \in Policies}

\* LLMBridgeServer: the request handler of http.createServer.  A body is
\* empty, not JSON, the JSON value null, or a JSON object with a string
\* prompt, with an array prompts, or with neither.
\* readBody: {} for an empty body, else JSON.parse, which throws on a
\* malformed body.
ReadBody(body) ==
  CASE body = "empty" -> "object"
    [] body = "malformed" -> "throws"
    [] OTHER -> body

\* The handler: the status it sends, and the subcall handler it invoked.
\* Reading a property of null throws a TypeError; every exception is
\* answered 500 by the catch block.
HandleRequest(method, url, body) ==
  IF method # "POST" THEN [status |-> 405, invoked |-> "none"]
  ELSE IF ReadBody(body) = "throws" THEN [status |-> 500, invoked |-> "none"]
  ELSE IF url \in {"/llm_query", "/llm_query_batched"} /\ ReadBody(body) = "null"
         THEN [status |-> 500, invoked |-> "none"]
  ELSE IF url = "/llm_query"
         THEN IF ReadBody(body) = "prompt"
                THEN [status |-> 200, invoked |-> "onSingleQuery"]
                ELSE [status |-> 400, invoked |-> "none"]
  ELSE IF url = "/llm_query_batched"
         THEN IF ReadBody(body) = "prompts"
                THEN [status |-> 200, invoked |-> "onBatchedQuery"]
                ELSE [status |-> 400, invoked |-> "none"]
  ELSE [status |-> 404, invoked |-> "none"]

RequestCalls ==
  {[fn |-> "request", method |-> m, url |-> u, body |-> b] :
     m \in {"GET", "PUT", "POST"}, u \in {"/llm_query", "/llm_query_batched", "/other"},
     b \in {"empty", "malformed", "null", "prompt", "prompts", "object"}}

InitNoRun ==
  /\ maxTotalSubcalls = 0 /\ iterationLimit = 0 /\ traceCollector = FALSE
  /\ InitHarness
  /\ InitSink
  /\ InitWorkerIdle
  /\ faults = 0
  /\ InitExecutor

InitLib ==
  /\ InitNoRun
  /\ \/ libCall \in ExtractCalls
     \/ libCall \in TruncateCalls
     \/ libCall \in RedactCalls
     \/ libCall \in RequestCalls
     \/ \E t \in SeqsUpTo({"fence_repl", "fence", "code", ""}, MaxResponseLines) :
          libCall = [fn |-> "extractReplCodeBlocks", text |-> t]
  /\ libRet = <<>>
  /\ runs = <<>>

Extract ==
  /\ libCall.fn = "extractFinalDirective"
  /\ libRet = <<>>
  /\ libRet' = <<ExtractFinalDirective(libCall.text)>>
  /\ UNCHANGED <<libCall, runs, runVars>>

\* const codeBlocks = extractReplCodeBlocks(response): the blocks that the
\* iteration executes, in this order.
ExtractBlocks ==
  /\ libCall.fn = "extractReplCodeBlocks"
  /\ libRet = <<>>
  /\ libRet' = <<ExtractReplCodeBlocks(libCall.text)>>
  /\ UNCHANGED <<libCall, runs, runVars>>

\* truncateText applied to the text, then to its own result.
Truncate ==
  /\ libCall.fn = "truncateText"
  /\ Len(libRet) < 2
  /\ libRet' = Append(libRet, TruncateText(IF libRet = <<>> THEN libCall.text ELSE libRet[1],
                                          libCall.max))
  /\ UNCHANGED <<libCall, runs, runVars>>

\* A redaction function applied to the text, then to the text of its own
\* result.
Redact ==
  /\ libCall.fn \in {"redactPromptText", "redactReplOutput", "redactContextPreview"}
  /\ Len(libRet) < 2
  /\ libRet' = Append(libRet, Redaction(libCall.fn,
                                        IF libRet = <<>> THEN libCall.text ELSE libRet[1].text,
                                        libCall.policy))
  /\ UNCHANGED <<libCall, runs, runVars>>

\* The bridge answers a request (the subcall handlers return normally).
Request ==
  /\ libCall.fn = "request"
  /\ libRet = <<>>
  /\ libRet' = <<HandleRequest(libCall.method, libCall.url, libCall.body)>>
  /\ UNCHANGED <<libCall, runs, runVars>>

NextLib ==
  \/ Extract
  \/ ExtractBlocks
  \/ Truncate
  \/ Redact
  \/ Request

SpecLib == InitLib /\ [][NextLib]_vars

(***************************************************************************)
(* convex/runs.ts and convex/runExecutor.ts: the runs table.  Every        *)
(* mutation is one transaction; the executor is an action and its          *)
(* mutations are separate transactions.                                    *)
(***************************************************************************)
Active(status) == status \in {"queued", "running"}

\* runs.start: every queued or running run older than the threshold is
\* patched to failed; a younger one makes the mutation throw, which rolls
\* the transaction back.  Then the run is inserted as queued and its
\* executor is scheduled.  A run is started with or without a document.
Start(hasDocument) ==
  /\ Len(runs) < MaxRuns
  /\ \A r \in DOMAIN runs : Active(runs[r].status) => runs[r].stale
  /\ runs' = Append([r \in DOMAIN runs |->
                       IF Active(runs[r].status) THEN [runs[r] EXCEPT !.status = "failed"]
                       ELSE runs[r]],
                    [status |-> "queued", stale |-> FALSE, document |-> hasDocument,
                     executor |-> "scheduled"])
  /\ UNCHANGED <<libCall, libRet, runVars>>

\* More than STUCK_THRESHOLD_MS have passed since the run was created.
GrowOld(r) ==
  /\ ~runs[r].stale
  /\ runs' = [runs EXCEPT ![r].stale = TRUE]
  /\ UNCHANGED <<libCall, libRet, runVars>>

\* runs.cancel
Cancel(r) ==
  /\ Active(runs[r].status)
  /\ runs' = [runs EXCEPT ![r].status = "failed"]
  /\ UNCHANGED <<libCall, libRet, runVars>>

\* execute: getForExecution; without a document the action throws and
\* ends; otherwise executor.start is appended.
ExecutorStart(r) ==
  /\ runs[r].executor = "scheduled"
  /\ runs' = [runs EXCEPT ![r].executor = IF runs[r].document THEN "started" ELSE "ended"]
  /\ UNCHANGED <<libCall, libRet, runVars>>

\* runs.markRunning
MarkRunning(r) ==
  /\ runs[r].executor = "started"
  /\ runs' = [runs EXCEPT ![r].status = "running", ![r].executor = "marked"]
  /\ UNCHANGED <<libCall, libRet, runVars>>

\* runs.markCompleted, after runRlmInSandbox has returned.
MarkCompleted(r) ==
  /\ runs[r].executor = "marked"
  /\ runs' = [runs EXCEPT ![r].status = "completed", ![r].executor = "ended"]
  /\ UNCHANGED <<libCall, libRet, runVars>>

\* runs.markFailed: no storage URL, or the catch block (failed or
\* timed_out).
MarkFailed(r, status) ==
  /\ runs[r].executor = "marked"
  /\ runs' = [runs EXCEPT ![r].status = status, ![r].executor = "ended"]
  /\ UNCHANGED <<libCall, libRet, runVars>>

InitRuns == InitNoRun /\ InitOuter

NextRuns ==
  \/ \E d \in BOOLEAN : Start(d)
  \/ \E r \in DOMAIN runs : GrowOld(r)
  \/ \E r \in DOMAIN runs : Cancel(r)
  \/ \E r \in DOMAIN runs : ExecutorStart(r)
  \/ \E r \in DOMAIN runs : MarkRunning(r)
  \/ \E r \in DOMAIN runs : MarkCompleted(r)
  \/ \E r \in DOMAIN runs, st \in {"failed", "timed_out"} : MarkFailed(r, st)

SpecRuns == InitRuns /\ [][NextRuns]_vars

(***************************************************************************)
(* convex/runs.ts, convex/runExecutor.ts and convex/runEvents.ts: the      *)
(* run_events rows of one run (rows: how many rows are stored with each    *)
(* seq), written by runs.start and by the executor's appendEvent, and read *)
(* page by page with runEvents.list.  The table is read through the index  *)
(* by_runId_seq, that is in the order of seq.  libCall holds the limit the *)
(* reader passes and the cursor of its next call, libRet the seq of the    *)
(* items it has been given so far.                                         *)
(***************************************************************************)
\* runs.start: the run.queued event is inserted with seq 1, and the
\* executor is scheduled.
QueueRun ==
  /\ rows = << >>
  /\ rows' = AddTo(rows, 1)
  /\ UNCHANGED <<harnessVars, workerVars, events, nextSeq, mainEv, faults>>

\* The executor's appendEvent, for an event of its own or one forwarded
\* from the harness: the mutation inserts a row with seq nextSeq, then
\* nextSeq += 1.
ExecutorAppend ==
  /\ rows # << >>
  /\ nextSeq <= MaxEvents
  /\ libCall.pages = 0
  /\ rows' = AddTo(rows, nextSeq)
  /\ nextSeq' = SeqAfter(TRUE)
  /\ UNCHANGED <<harnessVars, workerVars, events, mainEv, faults>>

\* runEvents.list(runId, cursor, limit) for the run that runs.start has
\* created, called with the cursor returned by the call before it (none for
\* the first call).
ListPage ==
  LET RECURSIVE IndexFrom(_)
      IndexFrom(s) == IF s > MaxEvents THEN <<>>
                      ELSE [k \in 1..Count(rows, s) |-> s] \o IndexFrom(s + 1)
      Min(a, b) == IF a <= b THEN a ELSE b
      limit == IF Min(libCall.limit, 500) >= 1 THEN Min(libCall.limit, 500) ELSE 1
      range == IF libCall.cursor # Null THEN IndexFrom(libCall.cursor + 1) ELSE IndexFrom(1)
      items == SubSeq(range, 1, Min(limit, Len(range)))
      nextCursor == IF Len(items) = limit THEN Last(items) ELSE Null
  IN /\ rows # << >>
     /\ libCall.pages = 0 \/ libCall.cursor # Null
     /\ libRet' = libRet \o items
     /\ libCall' = [libCall EXCEPT !.cursor = nextCursor, !.pages = @ + 1]
     /\ UNCHANGED <<runs, runVars>>

NextEvents ==
  \/ QueueRun
  \/ ExecutorAppend
  \/ ListPage

\* No run has been started; a reader will page with some limit.
InitEvents ==
  /\ InitNoRun
  /\ runs = <<>>
  /\ libRet = <<>>
  /\ \E limit \in 0..MaxLimit :
       libCall = [fn |-> "list", limit |-> limit, cursor |-> Null, pages |-> 0]

SpecEvents == InitEvents /\ [][NextEvents]_vars

(***************************************************************************)
(* Properties                                                              *)
(***************************************************************************)
SubcallIds == 1..subcallSequence
HandlerIds == DOMAIN handlers
EndedCount == Emitted("run.ended_completed", Null) + Emitted("run.ended_failed", Null)

\* C1: in every reachable state subcallCount <= maxTotalSubcalls, for every
\* interleaving of concurrent /llm_query and /llm_query_batched handlers.
C1_BudgetNeverExceeded == subcallCount <= maxTotalSubcalls

\* C1 witness: the budget is used up by one handler whose LM call is under
\* way while another handler, which arrived concurrently, has been rejected.
C1_Witness ==
  /\ maxTotalSubcalls >= 1
  /\ subcallCount = maxTotalSubcalls
  /\ \E h, g \in HandlerIds :
       /\ handlers[h].pc = "lm"
       /\ handlers[g].cont = "terminal"
       /\ handlers[g].res = RejectedResponse(maxTotalSubcalls)

\* C2 (as claimed): the rows stored for a run have the seq values 1, 2, ...
\* with no duplicate and no gap, whatever the interleaving of emissions.
C2_SeqUniqueAndGapless ==
  /\ \A s \in DOMAIN rows : rows[s] = 1
  /\ DOMAIN rows = 1..Cardinality(DOMAIN rows)

\* C3 (as claimed): a run that has settled emitted exactly one of
\* run.ended_completed and run.ended_failed, and its collector, if any, was
\* notified exactly once.
C3_ExactlyOneEnded ==
  pc = "settled" =>
    /\ EndedCount = 1
    /\ traceCollector => onTraceCalls = 1

\* C4: when completion settles, whatever the exit path, the bridge has been
\* stopped and the worker has been closed (no listening bridge, no running
\* child).
C4_ReleasedOnEveryExit ==
  pc = "settled" =>
    /\ bridge = "stopped"
    /\ closed
    /\ child \in {"killed", "exited"}

\* C4 witness: a run has settled after its exec failed.
C4_Witness ==
  /\ pc = "settled"
  /\ bodyResult.kind = "error"
  /\ \E id \in DOMAIN reqs : reqs[id].cmd = "exec" /\ reqs[id].st = "rejected"
  /\ \E id \in DOMAIN reqs : reqs[id].cmd = "close"

\* C5: when the last emitted event is a subcall.started with a non-null
\* replExecutionId X, repl.execution.started was emitted for X and
\* repl.execution.completed was not (the emitted counts change only when an
\* event is emitted, so this is the state at every such emission).
C5_BindingWindow ==
  (lastEvent.kind = "subcall.started" /\ lastEvent.repl # Null) =>
    /\ Emitted("repl.execution.started", lastEvent.repl) = 1
    /\ Emitted("repl.execution.completed", lastEvent.repl) = 0

\* C5 witness: the second item of a batch has been started inside the exec
\* that was bound when it began.
C5_Witness ==
  /\ lastEvent.kind = "subcall.started"
  /\ lastEvent.repl = 1
  /\ \E h \in HandlerIds : handlers[h].kind = "batched" /\ handlers[h].index = 1
                             /\ handlers[h].sid = lastEvent.sid

\* C6 (as claimed): a run that has failed, and whose failure reached the
\* caller, emitted run.failed and run.ended_failed, not run.ended_completed,
\* and its trace has the status failed.
C6_FailureEndsFailed ==
  (pc = "settled" /\ bodyResult.kind = "error" /\ outcome = bodyResult) =>
    /\ Emitted("run.failed", Null) = 1
    /\ Emitted("run.ended_failed", Null) = 1
    /\ Emitted("run.ended_completed", Null) = 0
    /\ traceCollector => trace.status = "failed"

\* C7 (as claimed): whatever the event sink and onTrace do, completion
\* settles with the result of its body and has emitted run.ended_*.
C7_DeliveryNeverChangesOutcome ==
  pc = "settled" =>
    /\ outcome = bodyResult
    /\ EndedCount = 1

\* C8: the step that follows subcall.started for a subcall rejects it
\* exactly when subcallCount has reached maxTotalSubcalls: the subcall then
\* gets the limit message as its response, no LM call is started and
\* subcallCount is unchanged; and every step that emits subcall.rejected
\* starts in a state with subcallCount = maxTotalSubcalls.
AtBudgetCheck(h) ==
  /\ handlers[h].pc = "sink"
  /\ handlers[h].cont = "check"
  /\ handlers'[h].cont # "check"

C8_RejectedAtLimit ==
  [][/\ \A h \in HandlerIds :
          (AtBudgetCheck(h) /\ subcallCount = maxTotalSubcalls) =>
            /\ handlers'[h].res =
                 [s |-> "Error: sub-call limit reached", n |-> maxTotalSubcalls]
            /\ handlers'[h].pc # "lm"
            /\ subcallCount' = subcallCount
            /\ lastEvent'.kind = "subcall.rejected"
            /\ lastEvent'.sid = handlers[h].sid
     /\ (evCount' # evCount /\ lastEvent'.kind = "subcall.rejected") =>
          /\ subcallCount = maxTotalSubcalls
          /\ subcallCount' = subcallCount]_vars

\* C8 witness: with a limit of one used up by another request, both items
\* of a batch were rejected and the batch has returned the limit message
\* for each.
C8_Witness ==
  /\ maxTotalSubcalls = 1
  /\ subcallCount = 1
  /\ \E h \in HandlerIds :
       /\ handlers[h].pc = "done"
       /\ handlers[h].responses = <<RejectedResponse(1), RejectedResponse(1)>>

\* C9 (as claimed): no subcall id has both a subcall.started and a
\* subcall.rejected event.
C9_NoStartedAndRejected ==
  \A sid \in SubcallIds :
    ~(Emitted("subcall.started", sid) >= 1 /\ Emitted("subcall.rejected", sid) >= 1)

\* C9 (amended): every subcall id has exactly one subcall.started, emitted
\* when the subcall arrives, and at most one of subcall.rejected,
\* subcall.completed and subcall.failed; a rejected subcall is not counted:
\* subcallCount is the number of subcalls that passed the budget check.
Accepted(sid) ==
  \/ Emitted("subcall.completed", sid) + Emitted("subcall.failed", sid) >= 1
  \/ \E h \in HandlerIds : handlers[h].sid = sid /\ handlers[h].pc = "lm"

C9_StartedBeforeBudgetCheck ==
  /\ \A sid \in SubcallIds :
       /\ Emitted("subcall.started", sid) = 1
       /\ Emitted("subcall.rejected", sid) + Emitted("subcall.completed", sid)
            + Emitted("subcall.failed", sid) <= 1
  /\ subcallCount = Cardinality({sid \in SubcallIds : Accepted(sid)})

\* C9 witness: a subcall has been started and then rejected, while another
\* one has been started and completed.
C9_Witness ==
  \E a, b \in SubcallIds :
    /\ Emitted("subcall.started", a) = 1 /\ Emitted("subcall.rejected", a) = 1
    /\ Emitted("subcall.started", b) = 1 /\ Emitted("subcall.completed", b) = 1

\* C10: a line read from the child's stdout is handed to the entry of the
\* queue that was submitted first and changes no other request; as long as
\* no write has failed, that entry is the earliest submitted request that
\* is still pending, and the line settles it.
LineStep ==
  /\ pending # <<>>
  /\ pending' = Tail(pending)
  /\ wFailed' = wFailed
  /\ child' = child

ExitStep == child # "exited" /\ child' = "exited"
RequestStep == Len(reqs') = Len(reqs) + 1

ParseErrorStep ==
  /\ pending # <<>>
  /\ reqs[Head(pending)].st = "pending"
  /\ reqs'[Head(pending)].msg = "Failed to parse worker response"

OutcomeOf(kind, index) ==
  CASE kind = "subcall.completed" -> TextResponse(index + 1)
    [] kind = "subcall.failed" -> FailedResponse
    [] kind = "subcall.rejected" -> RejectedResponse(maxTotalSubcalls)
    [] OTHER -> [s |-> "", n |-> 0]

C13_BatchResponsesInOrder ==
  [][\A h \in HandlerIds :
       /\ handlers'[h].responses # handlers[h].responses =>
            /\ handlers[h].kind = "batched"
            /\ Len(handlers[h].responses) = handlers[h].index
            /\ lastEvent'.sid = handlers[h].sid
            /\ handlers'[h].responses =
                 Append(handlers[h].responses, OutcomeOf(lastEvent'.kind, handlers[h].index))
       /\ (handlers[h].kind = "batched" /\ handlers[h].pc # "done"
             /\ handlers'[h].pc = "done") =>
            /\ Len(handlers[h].responses) = handlers[h].n
            /\ handlers'[h].responses = handlers[h].responses
            /\ handlers'[h].http = 200]_vars

\* C13 witness: a batch of two prompts has returned the LM text of its
\* first prompt and the limit string for its second, while another bridge
\* request was being handled.
C13_Witness ==
  \E h, g \in HandlerIds :
    /\ h # g
    /\ handlers[h].kind = "batched" /\ handlers[h].pc = "done"
    /\ handlers[h].responses = <<TextResponse(1), RejectedResponse(1)>>
    /\ handlers[g].pc \notin {"idle", "done"}

\* C14 (as claimed): all subcalls of one batched request carry the same
\* (iterationIndex, replExecutionId) binding in the trace (a run of this
\* specification handles at most MaxRunRequests = 1 request, so that all
\* batched subcalls of the trace belong to one batch).
C14_BatchSharesBinding ==
  MaxRunRequests = 1 =>
    \A j, k \in DOMAIN trace.subcalls :
      (trace.subcalls[j].kind = "batched" /\ trace.subcalls[k].kind = "batched") =>
        /\ trace.subcalls[j].iterationIndex = trace.subcalls[k].iterationIndex
        /\ trace.subcalls[j].replExecutionId = trace.subcalls[k].replExecutionId

\* C15: the two bindings are null together or non-null together, and they
\* are non-null only while the main task awaits worker.exec for the exec
\* they name; in every other state, also after a failed exec, both are null.
C15_BindingOnlyDuringExec ==
  /\ (activeIterationIndex = Null) <=> (activeReplExecutionId = Null)
  /\ activeReplExecutionId # Null =>
       /\ pc = "await_exec"
       /\ reqs[mreq].cmd = "exec"
       /\ activeReplExecutionId = curRepl
       /\ activeIterationIndex = i + 1

\* C15 witness: an exec has failed, the catch block has run, and both
\* bindings are null.
C15_Witness ==
  /\ pc = "sink" /\ cont = "rethrow"
  /\ mreq # Null
  /\ reqs[mreq].cmd = "exec" /\ reqs[mreq].st = "rejected"
  /\ Emitted("repl.execution.started", curRepl) = 1
  /\ activeIterationIndex = Null /\ activeReplExecutionId = Null

\* C16 (as claimed): at most one sink call of a run is outstanding at any
\* time, counting the main task and every bridge handler.
OutstandingSinkCalls ==
  Cardinality({h \in HandlerIds : handlers[h].pc = "sink"})
    + (IF pc = "sink" THEN 1 ELSE 0)

C16_SinkCallsSerial == OutstandingSinkCalls <= 1

\* C17: a run makes at most one fallback root call and at most
\* iterationLimit + 1 root calls in all; the fallback call is made only
\* after iterationLimit iterations that all ended without a directive (i
\* counts them), and it is made in the very step in which the loop is left
\* that way.
LoopExitStep ==
  \/ i' = i + 1 /\ i' = iterationLimit
  \/ /\ iterationLimit = 0
     /\ pc = "sink" /\ cont = "loop_head"
     /\ cont' # "loop_head"

C17_FallbackOnce ==
  /\ [](/\ rootCalls.fallback <= 1
        /\ rootCalls.iter + rootCalls.fallback <= iterationLimit + 1
        /\ rootCalls.iter <= iterationLimit
        /\ rootCalls.fallback = 1 =>
             /\ i = iterationLimit
             /\ rootCalls.iter = iterationLimit
             /\ Len(iterations) = iterationLimit
        /\ i < iterationLimit => rootCalls.fallback = 0)
  /\ [][LoopExitStep =>
          /\ rootCalls.fallback = 0
          /\ rootCalls'.fallback = 1
          /\ pc' = "await_fallback"]_vars

\* C17 witness: with a limit of one iteration, the iteration ended without
\* a directive and the fallback call has been made: two root calls.
C17_Witness ==
  /\ iterationLimit = 1
  /\ rootCalls = [iter |-> 1, fallback |-> 1]
  /\ Len(iterations) = 1
  /\ pc = "await_fallback"

\* C18: a run that returned an answer from the fallback path took it from
\* the fallback response by the normal rules: the directive text for FINAL,
\* the value the worker resolved for FINAL_VAR, and otherwise the raw
\* fallback response with directive kind fallback_text; in each case the
\* trace records fallbackUsed = true and the raw fallback response.
ReturnedFromFallback ==
  /\ pc = "settled"
  /\ bodyResult.kind = "answer"
  /\ rootCalls.fallback = 1

C18_FallbackFinalization ==
  ReturnedFromFallback =>
    /\ response.directive = "final" => bodyResult.v = "directive text"
    /\ response.directive = "final_var" =>
         /\ bodyResult.v = "variable value"
         /\ \E id \in DOMAIN reqs : reqs[id].cmd = "final_var" /\ reqs[id].st = "resolved"
    /\ response.directive = "none" => bodyResult.v = "raw fallback response"
    /\ traceCollector =>
         /\ trace.finalization.directiveKind =
              (IF response.directive = "none" THEN "fallback_text" ELSE response.directive)
         /\ trace.finalization.answer = bodyResult.v
         /\ trace.finalization.fallbackUsed
         /\ trace.finalization.fallbackResponse = "raw fallback response"

\* C18 witness: a traced run has returned the raw fallback response as its
\* answer, after one iteration without a directive.
C18_Witness ==
  /\ ReturnedFromFallback
  /\ traceCollector
  /\ iterationLimit = 1
  /\ response.directive = "none"
  /\ outcome = Answer("answer", "raw fallback response")

\* C19 (as claimed): the first failure of a root LM call or of a worker
\* request of the main task (init, exec, final_var) ends the run: run.failed
\* is emitted, no further root LM call is made and no further init, exec
\* or final_var request is issued, the loop does not advance, and
\* completion rejects with the error of that failure.
RootOrWorkerFailed == runFailedMessage \notin {Undefined, "listen failed"}

NoRetryStep ==
  RootOrWorkerFailed =>
    /\ rootCalls' = rootCalls
    /\ i' = i
    /\ \A id \in DOMAIN reqs' \ DOMAIN reqs : reqs'[id].cmd = "close"

C19_NoRetries ==
  /\ [][NoRetryStep]_vars
  /\ []((pc = "settled" /\ RootOrWorkerFailed) =>
          /\ Emitted("run.failed", Null) = 1
          /\ Emitted("run.finalized", Null) = 0
          /\ outcome = Answer("error", runFailedMessage))

\* C20 (as claimed): once the timer of the executor has fired during a
\* run, the harness makes no further root LM call, does not advance its
\* loop, issues no further exec request and emits neither run.finalized nor
\* run.ended_completed; and when the run has settled, the bridge is
\* stopped, the worker is closed, run.failed and run.ended_failed have been
\* emitted and the trace has the status failed.
CancelledStep ==
  timedOut =>
    /\ rootCalls' = rootCalls
    /\ i' = i
    /\ \A id \in DOMAIN reqs' \ DOMAIN reqs : reqs'[id].cmd # "exec"
    /\ Count(emitted', <<"run.finalized", Null>>) = Emitted("run.finalized", Null)
    /\ Count(emitted', <<"run.ended_completed", Null>>) = Emitted("run.ended_completed", Null)

C20_TimeoutCancelsRun ==
  /\ [][CancelledStep]_vars
  /\ []((timedOut /\ pc = "settled") =>
          /\ bridge = "stopped"
          /\ closed
          /\ Emitted("run.failed", Null) = 1
          /\ Emitted("run.ended_failed", Null) = 1
          /\ traceCollector => trace.status = "failed")

\* C21: a bridge request with a well-formed body is never answered with a
\* status other than 200, also when its subcall was rejected by the budget
\* or its LM call failed; the outcome of such a subcall is one of the two
\* texts that begin with "Error: ", as the response of a single query and
\* as the entry of a batch.
C21_BusinessErrorsAre200 ==
  LET ErrorTexts == {"Error: sub-call limit reached", "Error: LM query failed - lm error"}
  IN
  \A h \in HandlerIds :
    /\ handlers[h].http \in {0, 200}
    /\ handlers[h].pc = "done" => handlers[h].http = 200
    /\ handlers[h].err => handlers[h].res.s \in ErrorTexts
    /\ \A k \in DOMAIN handlers[h].responses :
         handlers[h].responses[k].s # "text" => handlers[h].responses[k].s \in ErrorTexts

\* C21 witness: one single query whose LM call failed and one that was
\* rejected by the budget have both been answered.
C21_Witness ==
  \E h, g \in HandlerIds :
    /\ handlers[h].pc = "done" /\ handlers[h].kind = "single"
    /\ handlers[h].res = FailedResponse
    /\ handlers[g].pc = "done" /\ handlers[g].kind = "single"
    /\ handlers[g].res = RejectedResponse(maxTotalSubcalls)

\* C22: the worker's close request is issued only after the bridge has
\* stopped (its server closed, no connection left open), and run.ended_*
\* is emitted only after the bridge has stopped and the worker is closed
\* with no request left pending.
C22_StopThenCloseThenEnded ==
  /\ (\E id \in DOMAIN reqs : reqs[id].cmd = "close") =>
       /\ bridge = "stopped"
       /\ \A h \in DOMAIN handlers : ~handlers[h].conn
  /\ EndedCount > 0 =>
       /\ bridge = "stopped"
       /\ \A h \in DOMAIN handlers : ~handlers[h].conn
       /\ closed
       /\ pending = <<>>

\* C22 witness: a run that served a bridge request has stopped the bridge,
\* closed the worker through an answered close request, and emitted
\* run.ended_completed.
C22_Witness ==
  /\ Emitted("run.ended_completed", Null) = 1
  /\ handlers[1].pc = "done"
  /\ \E id \in DOMAIN reqs : reqs[id].cmd = "close" /\ reqs[id].st = "resolved"

\* C23 (as claimed): in a delivered trace every subcall record that carries
\* an iteration index is listed, by its id, in the subcallIds of the
\* iteration trace with that index.
C23_SubcallsCrossReferenced ==
  onTraceCalls > 0 =>
    \A k \in DOMAIN trace.subcalls :
      trace.subcalls[k].iterationIndex # Null =>
        \E j \in DOMAIN trace.rootIterations :
          /\ trace.rootIterations[j].index = trace.subcalls[k].iterationIndex
          /\ \E m \in DOMAIN trace.rootIterations[j].subcallIds :
               trace.rootIterations[j].subcallIds[m] = trace.subcalls[k].id

\* C24 (as claimed): when a run has settled, result.iterations, and
\* trace.rootIterations of a traced run, hold one record per root response
\* received, with the indices 1..n in order.  The root responses are
\* counted as one per root.iteration.completed event, and the fallback call
\* once it has returned (it is followed at once by run.finalized or by a
\* final_var request).
C24_IterationPerRootResponse ==
  LET RootResponses ==
        Cardinality({it \in 1..MaxIterationLimit :
                       Emitted("root.iteration.completed", it) > 0})
          + (IF /\ rootCalls.fallback = 1
                /\ \/ Emitted("run.finalized", Null) > 0
                   \/ \E id \in DOMAIN reqs : reqs[id].cmd = "final_var"
              THEN 1 ELSE 0)
  IN
  pc = "settled" =>
    /\ Len(iterations) = RootResponses
    /\ \A k \in DOMAIN iterations : iterations[k].index = k
    /\ traceCollector =>
         /\ Len(trace.rootIterations) = RootResponses
         /\ \A k \in DOMAIN trace.rootIterations : trace.rootIterations[k].index = k

\* C25 (as claimed): for every text that has a line FINAL_VAR(x) and a line
\* FINAL(y), with non-empty arguments and in either order,
\* extractFinalDirective returns kind final_var with the argument of a
\* FINAL_VAR line of the text.
C25_FinalVarWins ==
  (/\ libCall.fn = "extractFinalDirective"
   /\ libRet # <<>>
   /\ \E k \in DOMAIN libCall.text :
        libCall.text[k].d = "final_var" /\ libCall.text[k].arg # ""
   /\ \E k \in DOMAIN libCall.text :
        libCall.text[k].d = "final" /\ libCall.text[k].arg # "") =>
     /\ libRet[1].kind = "final_var"
     /\ \E k \in DOMAIN libCall.text :
          /\ libCall.text[k].d = "final_var"
          /\ libCall.text[k].arg # ""
          /\ libRet[1].value = <<libCall.text[k]>>

\* C26 (as claimed): truncateText applied to its own result, with the same
\* maximum, returns that result.
C26_TruncateIdempotent ==
  (libCall.fn = "truncateText" /\ Len(libRet) = 2) => libRet[2] = libRet[1]

\* C27 (as claimed): for every policy, redactPromptText, redactReplOutput
\* and redactContextPreview applied to the text of their own result return
\* that text.
C27_RedactIdempotent ==
  (/\ libCall.fn \in {"redactPromptText", "redactReplOutput", "redactContextPreview"}
   /\ Len(libRet) = 2) => libRet[2].text = libRet[1].text

\* C28 (as claimed): a request whose method is not POST is answered 405, a
\* POST to a path other than /llm_query and /llm_query_batched is answered
\* 404 whatever its body, and neither invokes a subcall handler.
C28_Routing ==
  (libCall.fn = "request" /\ libRet # <<>>) =>
    /\ libCall.method # "POST" =>
         libRet[1] = [status |-> 405, invoked |-> "none"]
    /\ (libCall.method = "POST" /\ libCall.url \notin {"/llm_query", "/llm_query_batched"}) =>
         libRet[1] = [status |-> 404, invoked |-> "none"]

\* C29 (as claimed): at most one run has the status queued or running.
C29_SingleActiveRun ==
  Cardinality({r \in DOMAIN runs : Active(runs[r].status)}) <= 1

\* C30 (as claimed): the status of a run only moves from queued to running
\* or to a terminal status, and from running to a terminal status; a
\* terminal status never changes.
C30_StatusMonotone ==
  [][\A r \in DOMAIN runs :
       runs'[r].status # runs[r].status =>
         \/ runs[r].status = "queued"
         \/ runs[r].status = "running" /\ runs'[r].status # "queued"]_vars

\* C31 (as claimed): the code blocks that an iteration executes, in order,
\* before it examines the final directive are the repl blocks of the root
\* response that are not empty after trimming, in document order and each
\* once; an empty block gives no exec request.  The responses are those
\* whose fences pair up: ```repl opens a block and the next ``` closes it.
C31_BlocksExecutedInOrder ==
  (libCall.fn = "extractReplCodeBlocks" /\ libRet # <<>>) =>
    LET text == libCall.text
        fences == {k \in DOMAIN text : text[k] \in {"fence_repl", "fence"}}
        Rank(k) == Cardinality({c \in fences : c <= k})
        paired == /\ Cardinality(fences) % 2 = 0
                  /\ \A k \in fences : (text[k] = "fence_repl") <=> (Rank(k) % 2 = 1)
        Fence(n) == CHOOSE k \in fences : Rank(k) = n
        Body(n) == LET s == SubSeq(text, Fence(2 * n - 1) + 1, Fence(2 * n) - 1)
                       ink == {x \in DOMAIN s : s[x] # ""}
                   IN IF ink = {} THEN <<>>
                      ELSE SubSeq(s, CHOOSE x \in ink : \A y \in ink : x <= y,
                                     CHOOSE x \in ink : \A y \in ink : y <= x)
        nonEmpty == {n \in 1..(Cardinality(fences) \div 2) : Body(n) # <<>>}
        Nth(j) == CHOOSE n \in nonEmpty : Cardinality({o \in nonEmpty : o <= n}) = j
    IN paired => libRet[1] = [j \in 1..Cardinality(nonEmpty) |-> Body(Nth(j))]

\* C32: at most one request of the worker is outstanding, and it is the one
\* the main task is waiting for; while a root LM call (of an iteration or
\* the fallback) is in flight no worker request is outstanding, so a root
\* call never overlaps an exec.
C32_OneWorkerRequest ==
  /\ Cardinality({id \in DOMAIN reqs : reqs[id].st = "pending"}) <= 1
  /\ Len(pending) <= 1
  /\ \A id \in DOMAIN reqs :
       reqs[id].st = "pending" =>
         /\ id = mreq
         /\ pc \in {"await_init", "await_exec", "await_finalvar", "await_fb_finalvar",
                    "await_close"}
  /\ pc \in {"await_root", "await_fallback"} =>
       \A id \in DOMAIN reqs : reqs[id].st # "pending"

\* C32 witness: a subcall's LM call is in flight while the exec request of
\* the main task, the only outstanding worker request, is in flight.
C32_Witness ==
  /\ pc = "await_exec"
  /\ mreq # Null
  /\ reqs[mreq].cmd = "exec" /\ reqs[mreq].st = "pending"
  /\ handlers[1].pc = "lm"

\* C33: a subcall id never has more than one terminal event
\* (subcall.completed, subcall.failed or subcall.rejected) nor more than
\* one trace record, and a record only with its terminal event; and every
\* id that was assigned eventually has exactly one terminal event and, in a
\* traced run, exactly one trace record.
C33_OneTerminalEvent ==
  LET TerminalEvents(s) == Emitted("subcall.completed", s) + Emitted("subcall.failed", s)
                             + Emitted("subcall.rejected", s)
      TraceRecords(s) == Cardinality({k \in DOMAIN trace.subcalls : trace.subcalls[k].id = s})
  IN /\ [](\A s \in 1..(MaxHandlers * MaxBatch) :
             /\ TerminalEvents(s) <= 1
             /\ TraceRecords(s) <= TerminalEvents(s)
             /\ s > subcallSequence => TerminalEvents(s) = 0)
     /\ \A s \in 1..(MaxHandlers * MaxBatch) :
          (subcallSequence >= s) ~>
             (TerminalEvents(s) = 1 /\ (traceCollector => TraceRecords(s) = 1))

\* C33 witness: a traced exec in which the three subcalls of a batch and a
\* single query have their trace records: one failed, the others rejected.
C33_Witness ==
  /\ traceCollector
  /\ Len(trace.subcalls) = 3
  /\ \E a \in 1..3 : Emitted("subcall.failed", a) = 1
  /\ Cardinality({c \in 1..3 : Emitted("subcall.rejected", c) = 1}) = 2
  /\ handlers[1].kind = "batched" /\ handlers[1].pc = "done"
  /\ handlers[2].pc = "done"

\* C34 (as claimed): once run.ended_completed or run.ended_failed has been
\* emitted it is the last event of the run, no bridge handler is still in
\* flight, and the trace that was delivered gets no further record.
C34_EndedIsLast ==
  /\ [](EndedCount > 0 =>
          /\ lastEvent.kind \in {"run.ended_completed", "run.ended_failed"}
          /\ \A h \in DOMAIN handlers : handlers[h].pc \in {"idle", "done"})
  /\ [][onTraceCalls > 0 => trace' = trace]_vars

\* C35 (as claimed): every completion call eventually settles, and it has
\* then emitted run.ended_completed or run.ended_failed.
C35_Termination ==
  /\ <>(pc = "settled")
  /\ [](pc = "settled" => EndedCount > 0)

\* C36: the ids given to the subcalls, rejected ones and batch items
\* included, are 1, 2, 3, ... in the order in which the subcalls are
\* started (each step that assigns an id takes the next number and emits
\* subcall.started for it); subcallSequence, subcallCount and replSequence
\* never decrease; subcallSequence >= subcallCount; and subcallCount is the
\* number of subcalls that passed the budget check, whether their LM call
\* is in flight, returned or failed.
C36_CountersAndIds ==
  /\ [](/\ subcallSequence >= subcallCount
        /\ \A sid \in 1..(MaxHandlers * MaxBatch) :
             Emitted("subcall.started", sid) = IF sid <= subcallSequence THEN 1 ELSE 0
        /\ subcallCount =
             subcallSequence
               - Cardinality({sid \in 1..subcallSequence :
                                \/ Emitted("subcall.rejected", sid) = 1
                                \/ \E h \in DOMAIN handlers :
                                     /\ handlers[h].sid = sid
                                     /\ handlers[h].pc = "sink"
                                     /\ handlers[h].cont = "check"}))
  /\ [][/\ subcallSequence' \in {subcallSequence, subcallSequence + 1}
        /\ subcallSequence' = subcallSequence + 1 =>
             /\ lastEvent'.kind = "subcall.started"
             /\ lastEvent'.sid = subcallSequence + 1
        /\ subcallCount' \in {subcallCount, subcallCount + 1}
        /\ replSequence' >= replSequence]_vars

\* C36 witness: three subcalls of concurrent requests have the ids 1, 2, 3;
\* one of them failed in its LM call and counts, the two others were
\* rejected.
C36_Witness ==
  /\ subcallSequence = 3
  /\ subcallCount = 1
  /\ \E sid \in 1..3 : Emitted("subcall.failed", sid) = 1
  /\ Cardinality({sid \in 1..3 : Emitted("subcall.rejected", sid) = 1}) = 2
  /\ handlers[1].pc = "done" /\ handlers[2].pc = "done"

C38_SeqDistinct == \A s \in DOMAIN rows : rows[s] <= 1

\* C39 (as claimed): when the reader has paged through the events until
\* nextCursor was null, it has been given every stored row exactly once,
\* in ascending order of seq.
C39_PagingComplete ==
  (libCall.fn = "list" /\ libCall.pages > 0 /\ libCall.cursor = Null) =>
    /\ \A k \in 1..(Len(libRet) - 1) : libRet[k] <= libRet[k + 1]
    /\ \A s \in 1..MaxEvents :
         Cardinality({k \in DOMAIN libRet : libRet[k] = s}) = Count(rows, s)

\* C40 (as claimed): the step in which the write of a request fails removes
\* the entry of that request from the queue and rejects that request; the
\* other entries stay queued in their order and no other request changes.
C40_WriteErrorRemovesOwnEntry ==
  [][wFailed' # wFailed =>
       LET NotFailed(id) == id # wFailed'
       IN /\ pending' = SelectSeq(pending, NotFailed)
          /\ reqs'[wFailed'].st = "rejected"
          /\ \A id \in DOMAIN reqs : id # wFailed' => reqs'[id] = reqs[id]]_vars

====
